---------------------------- MODULE Spec2Model ----------------------------
(***************************************************************************)
(* Model of the job application orchestration engine of ResumeAigent:      *)
(*   - SafeJobStorage (job_manager.py): the outcome store, its sentinel    *)
(*     lock, its .bak handling;                                            *)
(*   - JobManager.start_applying / apply_jobs / _apply_to_job              *)
(*     (job_manager.py): the control loop and the operator input;         *)
(*   - JobApplier.job_apply (job_applier.py): one application attempt.     *)
(*                                                                         *)
(* SpecStore drives store_job step by step from a caller that stores       *)
(* arbitrary records, next to a foreign holder of the lock file and a      *)
(* crash that leaves a category file unparsable.  Spec is a run of         *)
(* start_applying, in which every write_to_file is the whole store_job.    *)
(***************************************************************************)
EXTENDS Integers, Sequences, FiniteSets, TLC

(***************************************************************************)
(* Bounds of the model.                                                    *)
(***************************************************************************)
MaxStores == 2          \* store_job calls made by the caller of SpecStore
MaxFaults == 1          \* I/O errors raised inside store_job calls
MaxCrashes == 1         \* crashes that leave a category file unparsable
NumSearches == 2        \* position/location pairs of the run
MaxPages == 2           \* listing pages the run can fetch with postings
MaxJobsPerPage == 2     \* postings on one listing page
MaxKeys == 3            \* keys the operator types during the run
MaxPostings == 2        \* postings the listing shows during a run
MaxCount == 60          \* largest applicant count, of either sign, tried
MaxApps == 4            \* _apply_to_job calls on the clock of SpecPacing
MaxFormPages == 2       \* pages of an application form
MaxSaves == 2           \* _save_questions_to_json calls on the answer cache
MaxQLen == 2            \* characters of a question text
MaxWords == 3           \* words of a generated posting description
MaxFetches == 6         \* listing pages fetched on the clock of SpecPages
MaxRetries == 4         \* retries of the resume generator that are counted
MaxFills == 3           \* fill_up calls on a page, and files, counted
MaxRequests == 2        \* record_request calls on one SessionManager
MaxClock == 27          \* last hour the wall clock of SpecSession reaches

(***************************************************************************)
(* Program constants.                                                      *)
(***************************************************************************)
max_attempts == 5       \* SafeJobStorage._acquire_lock
MINIMUM_WAIT_TIME_IN_SECONDS == 60
JOB_MIN_APPLICATIONS == 1
JOB_MAX_APPLICATIONS == 50
MANUAL_MODE == TRUE

Categories == {"success", "manual_apply", "skipped", "failed"}


NoReason == "none"
ReasonOutside == "Applicant count outside range"
ReasonBlacklisted == "Job blacklisted"
ReasonAppliedJob == "Already applied to this job"
ReasonAppliedCompany == "Already applied to this company"
ReasonError == "Application error"

(***************************************************************************)
(* The record store_job builds from a job (lines 91-104): the fields the   *)
(* manager later reads back (link, company) and the optional reason.       *)
(***************************************************************************)
OutcomeRecord(link, company, reason) ==
    [link |-> link, company |-> company, reason |-> reason]

(***************************************************************************)
(* Content of a file of the storage directory, as json.load sees it:       *)
(* absent, unparsable ("bad"), a JSON array ("list") or another JSON       *)
(* value ("obj", v holding that one value).                                *)
(***************************************************************************)
Absent == [t |-> "absent", v |-> <<>>]
Bad == [t |-> "bad", v |-> <<>>]
JsonList(s) == [t |-> "list", v |-> s]
JsonObj(r) == [t |-> "obj", v |-> <<r>>]

Exists(f) == f.t # "absent"

\* json.load followed by the isinstance check (lines 114-117, 121-124):
\* the list to extend, for a file that parses.
Loaded(f) == f.v

Parses(f) == f.t \in {"list", "obj"}

\* shutil.copy(file_path, backup_path), made only when the primary exists
\* (lines 108-111): the backup after the copy.
BackupCopy(p, b) == IF Exists(p) THEN p ELSE b

ReadExisting_raise(p, b) ==
    IF ~Exists(p) THEN [ok |-> TRUE, data |-> <<>>]
    ELSE IF Parses(p) THEN [ok |-> TRUE, data |-> Loaded(p)]
    ELSE IF Parses(b) THEN [ok |-> TRUE, data |-> Loaded(b)]
    ELSE [ok |-> FALSE, data |-> <<>>]

\* Lines 107-127: existing_data, read from the primary and, when that does
\* not parse, from the backup as it is after the copy.  ok is FALSE when
\* an exception leaves the block; the bare except of line 125 lets none.
ReadExisting(p, b) ==
    IF ~Exists(p) THEN [ok |-> TRUE, data |-> <<>>]
    ELSE IF Parses(p) THEN [ok |-> TRUE, data |-> Loaded(p)]
    ELSE IF Parses(b) THEN [ok |-> TRUE, data |-> Loaded(b)]
    ELSE [ok |-> TRUE, data |-> <<>>]

WriteBack_overwrite(existing, data) == JsonList(<<data>>)

\* Lines 130-133: append and write back.
WriteBack(existing, data) == JsonList(Append(existing, data))


(***************************************************************************)
(* State.                                                                  *)
(*   primary, backup   {category}.json and {category}.json.bak of the      *)
(*                     storage directory (JOB_APPLICATIONS_DIR)            *)
(*   lock_file         .file_lock: "none", or who created it               *)
(*   sj                the store_job call in progress: its position, its   *)
(*                     arguments, the locals of _acquire_lock and of the   *)
(*                     read, and how it ended                              *)
(*   stored, intact, precrash, budget                                      *)
(*                     history: records written per category, whether a    *)
(*                     category file has only ever been written by         *)
(*                     store_job, the content a crash destroyed, and the   *)
(*                     calls, faults and crashes made so far               *)
(***************************************************************************)
VARIABLES primary, backup, lock_file, sj, stored, intact, precrash, budget

storeVars == <<primary, backup, lock_file, sj, stored, intact, precrash, budget>>

(***************************************************************************)
(* State of a run of JobManager.start_applying.                            *)
(*   cfg           MANUAL_MODE (config.py) and apply_once_at_company       *)
(*   out_dir       failed.json and success.json of output_file_directory,  *)
(*                 the directory the manager's checks read                 *)
(*   status, stats, seen_jobs     fields of JobManager                     *)
(*   pc            position in start_applying / apply_jobs / job_apply     *)
(*   search        index of the current position/location pair            *)
(*   page_count, jobs   locals of start_applying; page_number, the page   *)
(*                 of the current search, goes only to next_job_page and   *)
(*                 to the log and is not kept                              *)
(*   job_list      the postings of apply_jobs still to process, the        *)
(*                 current one first                                       *)
(*   ja            locals of the job_apply call in progress                *)
(*   op            the collaborator operation the last step performed      *)
(*                 last ("log_error": it logged an error of a page or of   *)
(*                 a search)                                               *)
(*   keys          the keys the operator has typed so far                  *)
(*   reports       calls of show_application_stats: by stop_application    *)
(*                 and by the finally clause of start_applying             *)
(*   raises        job_apply calls that ended by raising                   *)
(*   listing       postings the listing site has not shown yet             *)
(***************************************************************************)
VARIABLES cfg, out_dir, status, stats, seen_jobs, pc, search, 
          page_count, jobs, job_list, ja, op, keys, reports, raises,
          listing

runVars == <<cfg, out_dir, status, stats, seen_jobs, pc, search, 
             page_count, jobs, job_list, ja, op, keys, reports, raises,
             listing>>

(***************************************************************************)
(* State of the units checked on their own.                                *)
(*   fn            the last call of a function without side effects: its   *)
(*                 name, its argument and what it returned                 *)
(*   pace          the clock of a sequence of _apply_to_job calls, in      *)
(*                 seconds: the time now, last_application_time and        *)
(*                 min_delay_between_apps of the manager; when job_apply   *)
(*                 of the latest call started and returned, and whether    *)
(*                 the operator skipped the wait after it, and the same    *)
(*                 of the call before                                      *)
(*   fa            the automated job_apply call in progress, from its      *)
(*                 click_apply_button on: its position, the form (number   *)
(*                 of pages, the current page, whether the last page has   *)
(*                 a submit control), the language of the posting and      *)
(*                 whether resume_path is a directory, the operations it   *)
(*                 has invoked, the errors fill_up has logged, the         *)
(*                 resumes and cover letters generated, how often fill_up  *)
(*                 ran on each page, and how the call ended                *)
(*   ac            the answer cache: the content of answers.json, the      *)
(*                 all_data attribute of the JobApplier, the company of    *)
(*                 current_job, the saves made, and the last operation on  *)
(*                 the cache with its key, its answer and its outcome      *)
(*   collect       a start_collecting_data call: its position, the index   *)
(*                 of the search, its locals page_number, page_count,      *)
(*                 retry_count and backoff_time, the postings the listing  *)
(*                 has not shown yet, the postings read_jobs has written,  *)
(*                 and how the last page ended with the back-off it slept  *)
(***************************************************************************)
VARIABLES fn, pace, fa, ac, sm, pg, cv, collect

unitVars == <<fn, pace, fa, ac, sm, pg, cv, collect>>

vars == <<storeVars, runVars, unitVars>>

NoFn == [name |-> "none", arg |-> 0, out |-> FALSE]

NoTime == -1

\* __init__ lines 146-161: no application yet, and the delay of this run.
NewPace(delay) ==
    [now |-> 0, last_application_time |-> NoTime,
     min_delay_between_apps |-> delay, apps |-> 0,
     start |-> NoTime, end |-> NoTime, skip |-> FALSE,
     prev_end |-> NoTime, prev_skip |-> FALSE]

\* A job_apply call in automated mode entering its try block
\* (job_applier.py line 143).
NewForm(pages, submit, lang, is_dir) ==
    [pc |-> "evaluate", pages |-> pages, page |-> 1, saves |-> 0,
     has_submit |-> submit, lang |-> lang, resume_is_dir |-> is_dir,
     calls |-> {}, logged |-> {}, detected_none |-> FALSE,
     generated |-> 0, oversize |-> FALSE, filled |-> [i \in 1..pages |-> 0],
     result |-> "none"]

NoCompany == "none"

NoCacheOp == [op |-> "none", type |-> "none", question |-> <<>>,
              answer |-> <<>>, found |-> <<>>, out |-> "none"]

\* The JobApplier after __init__ (job_applier.py lines 47-68, where the
\* assignment of all_data is commented out) with answers.json holding
\* file and current_job at a posting of the company.
NewCache(file, company) ==
    [file |-> file, all_data |-> "unset", company |-> company, saves |-> 0,
     last |-> NoCacheOp]

\* The empty session record of _load_session_data (lines 22, 27);
\* daily_requests maps a date, the number of its day on the wall clock, to
\* the requests counted on it.
EmptySessionData == [last_session |-> NoTime, daily_requests |-> <<>>]

\* No SessionManager built yet: the session file as it was left, the
\* wall clock in whole hours, and nothing called.

NewSession(file, now) ==
    [file |-> file, now |-> now, state |-> "none",
     session_data |-> EmptySessionData, total_requests_today |-> 0,
     requests |-> 0, last |-> [op |-> "none", out |-> FALSE]]

\* start_applying before its loop (lines 362-366), at second `now` of a
\* clock: no page fetched, no navigation made, the governor not asked.
NewPages(now) ==
    [pc |-> "fetch", now |-> now,
     next_page_time |-> now + MINIMUM_WAIT_TIME_IN_SECONDS,
     page_count |-> 0, last_fetch |-> NoTime, prev_fetch |-> NoTime,
     consulted |-> FALSE, navs |-> 0, left |-> 0]

\* _create_and_upload_resume at the head of its loop (line 382): nothing
\* answered by the generator yet, no wait made, no retry counted.
NewResume ==
    [pc |-> "generate", response |-> "none", wait_time |-> 0,
     retries |-> 0, result |-> "none"]

\* start_collecting_data when called (line 282), the listing holding
\* `postings` postings.
NewCollect(postings) ==
    [pc |-> "search", search |-> 1, page_number |-> 0, page_count |-> 0,
     retry_count |-> 0, backoff_time |-> 0, listing |-> postings,
     written |-> 0, last |-> "none", slept |-> 0]

\* Every unit at rest, but for the one unit `x` a specification starts
\* in states of its own.
InitUnits(x) ==
    /\ IF x = "fn" THEN TRUE ELSE fn = NoFn
    /\ IF x = "pace" THEN TRUE ELSE pace = NewPace(45)
    /\ IF x = "fa" THEN TRUE ELSE fa = NewForm(1, TRUE, "en", FALSE)
    /\ IF x = "ac" THEN TRUE ELSE ac = NewCache(Absent, NoCompany)
    /\ IF x = "sm" THEN TRUE ELSE sm = NewSession(Absent, 0)
    /\ IF x = "pg" THEN TRUE ELSE pg = NewPages(0)
    /\ IF x = "cv" THEN TRUE ELSE cv = NewResume
    /\ IF x = "collect" THEN TRUE ELSE collect = NewCollect(0)

\* Categories and records the caller of SpecStore stores.
StoreCats == {"skipped", "failed"}



RUNNING == "running"
PAUSED == "paused"
STOPPED == "stopped"

NoCall == [is_suitable |-> FALSE, result |-> FALSE]

\* JobManager.__init__ (lines 141-163) and set_parameters (lines 209-232).
InitManager ==
    /\ status = RUNNING
    /\ stats = [applied |-> 0, skipped |-> 0, failed |-> 0]
    /\ seen_jobs = <<>>
    /\ pc = "start"
    /\ search = 1
    /\ page_count = 0
    /\ jobs = "unset"
    /\ job_list = <<>>
    /\ ja = NoCall
    /\ op = "none"
    /\ reports = [stop |-> 0, final |-> 0]
    /\ raises = 0
    /\ listing = MaxPostings

IdleCall == [pc |-> "idle", category |-> "failed",
             data |-> OutcomeRecord("L1", "acme", NoReason),
             attempts |-> 0, created |-> FALSE, gave_up |-> FALSE,
             existing_data |-> <<>>, pre |-> Absent,
             raised |-> FALSE, fault |-> FALSE]

InitStore ==
    /\ \E c \in StoreCats, x \in {Absent, JsonList(<<>>),
              JsonObj(OutcomeRecord("L1", "acme", NoReason))} :
          /\ primary = [k \in Categories |-> IF k = c THEN x ELSE Absent]
          /\ intact = [k \in Categories |-> (k # c) \/ x = Absent]
    /\ backup = [k \in Categories |-> Absent]
    /\ lock_file \in {"none", "other"}
    /\ sj = IdleCall
    /\ stored = [k \in Categories |-> 0]
    /\ precrash = [k \in Categories |-> Absent]
    /\ budget = [calls |-> 0, faults |-> 0, crashes |-> 0]
    /\ InitManager
    /\ cfg = [manual |-> MANUAL_MODE, once |-> FALSE]
    /\ out_dir = [failed |-> Absent, success |-> Absent]
    /\ keys = <<>>
    /\ InitUnits("")

(***************************************************************************)
(* SafeJobStorage._acquire_lock (lines 59-72).                             *)
(***************************************************************************)
KeepPolling_unbounded(l, a) == l # "none"

\* The loop condition of line 63.
KeepPolling(l, a) == l # "none" /\ a < max_attempts

\* _release_lock (lines 74-80): the lock file after the call.  exists() and
\* unlink() do not look at who created the file.
ReleaseLock(l) == IF l # "none" THEN "none" ELSE l

OnRaise_nofinally == "done"

\* Where control goes when a step of the try block of store_job raises:
\* to the finally clause of line 137.
OnRaise == "release"

\* An I/O error, while the bound on them allows one more.
Fault ==
    /\ budget.faults < MaxFaults
    /\ budget' = [budget EXCEPT !.faults = @ + 1]

\* The caller enters store_job(job, category, reason).
StoreCall(c, d) ==
    /\ sj.pc = "idle"
    /\ budget.calls < MaxStores
    /\ sj' = [IdleCall EXCEPT !.pc = "acquire", !.category = c, !.data = d,
                              !.pre = primary[c]]
    /\ budget' = [budget EXCEPT !.calls = @ + 1]
    /\ UNCHANGED <<primary, backup, lock_file, stored, intact, precrash>>
    /\ UNCHANGED <<runVars, unitVars>>

\* One turn of the polling loop: time.sleep(0.5); attempts += 1.
AcquirePoll ==
    /\ sj.pc = "acquire"
    /\ KeepPolling(lock_file, sj.attempts)
    /\ sj' = [sj EXCEPT !.attempts = @ + 1]
    /\ UNCHANGED <<primary, backup, lock_file, stored, intact, precrash, budget>>
    /\ UNCHANGED <<runVars, unitVars>>

\* Lines 67-72: give up with a warning, or create the lock file.
AcquireDone ==
    /\ sj.pc = "acquire"
    /\ ~KeepPolling(lock_file, sj.attempts)
    /\ IF lock_file # "none"
       THEN /\ sj' = [sj EXCEPT !.pc = "backup", !.gave_up = TRUE]
            /\ UNCHANGED lock_file
       ELSE /\ lock_file' = "self"
            /\ sj' = [sj EXCEPT !.pc = "backup", !.created = TRUE]
    /\ UNCHANGED <<primary, backup, stored, intact, precrash, budget>>
    /\ UNCHANGED <<runVars, unitVars>>

\* Creating the lock file raises: open() fails and there is no lock file,
\* or the write of the pid fails and the file is there.
AcquireFault ==
    /\ sj.pc = "acquire"
    /\ ~KeepPolling(lock_file, sj.attempts)
    /\ lock_file = "none"
    /\ Fault
    /\ \E made \in BOOLEAN :
          /\ lock_file' = IF made THEN "self" ELSE "none"
          /\ sj' = [sj EXCEPT !.pc = OnRaise, !.created = made,
                              !.raised = TRUE, !.fault = TRUE]
    /\ UNCHANGED <<primary, backup, stored, intact, precrash>>
    /\ UNCHANGED <<runVars, unitVars>>

(***************************************************************************)
(* SafeJobStorage.store_job (lines 82-138), after the lock.                *)
(***************************************************************************)
\* Lines 90-111: build the record; copy the primary to the backup if the
\* primary exists.
Backup ==
    /\ sj.pc = "backup"
    /\ backup' = [backup EXCEPT ![sj.category] =
                     BackupCopy(primary[sj.category], @)]
    /\ sj' = [sj EXCEPT !.pc = "read"]
    /\ UNCHANGED <<primary, lock_file, stored, intact, precrash, budget>>
    /\ UNCHANGED <<runVars, unitVars>>

\* Building the record or the copy raises; a failed copy may leave a
\* partial backup.
BackupFault ==
    /\ sj.pc = "backup"
    /\ Fault
    /\ \E partial \in BOOLEAN :
          backup' = IF partial /\ Exists(primary[sj.category])
                    THEN [backup EXCEPT ![sj.category] = Bad]
                    ELSE backup
    /\ sj' = [sj EXCEPT !.pc = OnRaise, !.raised = TRUE, !.fault = TRUE]
    /\ UNCHANGED <<primary, lock_file, stored, intact, precrash>>
    /\ UNCHANGED <<runVars, unitVars>>

\* Lines 107-127.
Read ==
    /\ sj.pc = "read"
    /\ LET r == ReadExisting(primary[sj.category], backup[sj.category])
       IN  IF r.ok
           THEN sj' = [sj EXCEPT !.pc = "write", !.existing_data = r.data]
           ELSE sj' = [sj EXCEPT !.pc = OnRaise, !.raised = TRUE]
    /\ UNCHANGED <<primary, backup, lock_file, stored, intact, precrash, budget>>
    /\ UNCHANGED <<runVars, unitVars>>

\* open() of the primary raises something that is not a decode error.
ReadFault ==
    /\ sj.pc = "read"
    /\ Exists(primary[sj.category])
    /\ Fault
    /\ sj' = [sj EXCEPT !.pc = OnRaise, !.raised = TRUE, !.fault = TRUE]
    /\ UNCHANGED <<primary, backup, lock_file, stored, intact, precrash>>
    /\ UNCHANGED <<runVars, unitVars>>

\* Lines 130-135.
Write ==
    /\ sj.pc = "write"
    /\ primary' = [primary EXCEPT ![sj.category] =
                      WriteBack(sj.existing_data, sj.data)]
    /\ stored' = [stored EXCEPT ![sj.category] = @ + 1]
    /\ sj' = [sj EXCEPT !.pc = "release"]
    /\ UNCHANGED <<backup, lock_file, intact, precrash, budget>>
    /\ UNCHANGED <<runVars, unitVars>>

\* The write raises: open(file_path, 'w') fails and the file is untouched,
\* or json.dump fails after open() truncated the file.
WriteFault ==
    /\ sj.pc = "write"
    /\ Fault
    /\ \E truncated \in BOOLEAN :
          IF truncated
          THEN /\ primary' = [primary EXCEPT ![sj.category] = Bad]
               /\ intact' = [intact EXCEPT ![sj.category] = FALSE]
          ELSE UNCHANGED <<primary, intact>>
    /\ sj' = [sj EXCEPT !.pc = OnRaise, !.raised = TRUE, !.fault = TRUE]
    /\ UNCHANGED <<backup, lock_file, stored, precrash>>
    /\ UNCHANGED <<runVars, unitVars>>

\* The finally clause: _release_lock, then store_job returns or re-raises.
Release ==
    /\ sj.pc = "release"
    /\ lock_file' = ReleaseLock(lock_file)
    /\ sj' = [sj EXCEPT !.pc = "done"]
    /\ UNCHANGED <<primary, backup, stored, intact, precrash, budget>>
    /\ UNCHANGED <<runVars, unitVars>>

\* The caller has the result of the call.
StoreReturn ==
    /\ sj.pc = "done"
    /\ sj' = IdleCall
    /\ precrash' = [precrash EXCEPT ![sj.category] =
                       IF sj.raised THEN @ ELSE Absent]
    /\ UNCHANGED <<primary, backup, lock_file, stored, intact, budget>>
    /\ UNCHANGED <<runVars, unitVars>>

(***************************************************************************)
(* Environment of the storage directory.                                   *)
(***************************************************************************)
\* Another process, or a run that died, holds the lock file.
ForeignLock ==
    /\ lock_file = "none"
    /\ lock_file' = "other"
    /\ UNCHANGED <<primary, backup, sj, stored, intact, precrash, budget>>
    /\ UNCHANGED <<runVars, unitVars>>

ForeignUnlock ==
    /\ lock_file = "other"
    /\ lock_file' = "none"
    /\ UNCHANGED <<primary, backup, sj, stored, intact, precrash, budget>>
    /\ UNCHANGED <<runVars, unitVars>>

\* A crash between two calls leaves the primary file of a category
\* unparsable.
CorruptPrimary(c) ==
    /\ sj.pc = "idle"
    /\ budget.crashes < MaxCrashes
    /\ primary[c].t = "list"
    /\ primary' = [primary EXCEPT ![c] = Bad]
    /\ precrash' = [precrash EXCEPT ![c] = primary[c]]
    /\ intact' = [intact EXCEPT ![c] = FALSE]
    /\ budget' = [budget EXCEPT !.crashes = @ + 1]
    /\ UNCHANGED <<backup, lock_file, sj, stored>>
    /\ UNCHANGED <<runVars, unitVars>>

NextStore ==
    \/ \E c \in StoreCats, d \in {OutcomeRecord("L1", "acme", NoReason),
             OutcomeRecord("L2", "bolt", ReasonError)} : StoreCall(c, d)
    \/ AcquirePoll
    \/ AcquireDone
    \/ AcquireFault
    \/ Backup
    \/ BackupFault
    \/ Read
    \/ ReadFault
    \/ Write
    \/ WriteFault
    \/ Release
    \/ StoreReturn
    \/ ForeignLock
    \/ ForeignUnlock
    \/ \E c \in StoreCats : CorruptPrimary(c)

SpecStore == InitStore /\ [][NextStore]_vars

\* store_job's own steps: the process runs on while a call is in progress.
StoreStep ==
    \/ AcquirePoll \/ AcquireDone \/ Backup \/ Read \/ Write \/ Release

SpecStoreFair == SpecStore /\ WF_vars(StoreStep)


(***************************************************************************)
(* Properties of the store (SpecStore).                                    *)
(***************************************************************************)
Length(f) == IF f.t = "list" THEN Len(f.v) ELSE 0

Returned == sj.pc = "done" /\ ~sj.raised

\* C2: a store_job call that returns normally on a category file that held
\* a JSON array (or did not exist) leaves the array it held, unchanged and
\* in order, followed by the new record; and a category file that was
\* absent at first and that no crash or failed write has damaged holds as
\* many records as calls have written.
StoreAppendsOne ==
    /\ (Returned /\ sj.pre.t \in {"absent", "list"}) =>
          primary[sj.category] = JsonList(Append(sj.pre.v, sj.data))
    /\ \A c \in Categories :
          intact[c] => Length(primary[c]) = stored[c]

StoreAppendsOneWitness ==
    /\ Returned
    /\ sj.pre.t = "list" /\ Len(sj.pre.v) = 1
    /\ Len(primary[sj.category].v) = 2
    /\ intact[sj.category] /\ stored[sj.category] = 2

\* C3: when a crash made the primary unparsable between two calls, the
\* next call that returns leaves the records the file held before the
\* crash followed by the new record.
BackupRecovers ==
    (Returned /\ sj.pre.t = "bad" /\ precrash[sj.category].t = "list") =>
        primary[sj.category] =
            JsonList(Append(precrash[sj.category].v, sj.data))

\* C4: a call that finds the primary unparsable, and so the backup too, and
\* that no I/O error interrupts, returns normally and leaves an array
\* holding the new record alone.
UnparsableResets ==
    (sj.pc = "done" /\ sj.pre.t = "bad" /\ ~sj.fault) =>
        /\ ~sj.raised
        /\ ~Parses(backup[sj.category])
        /\ primary[sj.category] = JsonList(<<sj.data>>)

UnparsableResetsWitness ==
    /\ Returned /\ sj.pre.t = "bad"
    /\ backup[sj.category].t = "bad"
    /\ primary[sj.category] = JsonList(<<sj.data>>)

BoundedAcquire ==
    /\ [](sj.attempts <= max_attempts)
    /\ []((sj.gave_up /\ sj.pc # "acquire") => sj.attempts = max_attempts)
    /\ []((sj.gave_up /\ Returned /\ sj.pre.t \in {"absent", "list"}) =>
             primary[sj.category] = JsonList(Append(sj.pre.v, sj.data)))
    /\ (sj.pc = "acquire" ~> sj.pc = "done")

BoundedAcquireWitness ==
    /\ sj.gave_up /\ Returned
    /\ sj.attempts = max_attempts
    /\ primary[sj.category] = JsonList(Append(sj.pre.v, sj.data))


(***************************************************************************)
(* A run of JobManager.start_applying (job_manager.py lines 347-443).      *)
(***************************************************************************)
NoCount == -1           \* _get_applicant_count returns None

\* The postings of the listing, as job_tile_to_job builds them.
\* apply_method keeps the default of the Job dataclass: no tile sets it.
Posting(l, c, n, b) ==
    [link |-> l, company |-> c, count |-> n, blacklisted |-> b,
     apply_method |-> ""]

Postings == {Posting("L1", "acme", 25, FALSE),
             Posting("L2", "bolt", NoCount, FALSE),
             Posting("L3", "acme", 51, FALSE),
             Posting("L4", "bolt", 0, FALSE)}

\* The place of a posting in the listing's order.
Rank ==
    [l \in {"L1", "L2", "L3", "L4"} |->
        CASE l = "L1" -> 1 [] l = "L2" -> 2 [] l = "L3" -> 3 [] OTHER -> 4]

\* The non-empty lists get_jobs_from_page can return for a page: its
\* _filter_duplicate_jobs drops a posting that is on the page already,
\* and a page shows its postings in the listing's order.
PageLists ==
    {l \in UNION {[1..n -> Postings] : n \in 1..MaxJobsPerPage} :
        \A i, j \in 1..Len(l) :
            i < j => Rank[l[i].link] < Rank[l[j].link]}

\* What output_file_directory holds when the run starts.
OutDirs ==
    {[failed |-> Absent, success |-> Absent],
     [failed |-> JsonList(<<OutcomeRecord("L2", "bolt", ReasonError)>>),
      success |-> JsonList(<<OutcomeRecord("L1", "acme", NoReason)>>)]}

\* The keys handle_user_input tells apart; "" is the timeout or any other
\* input.
Keys == {"p", "r", "q", ""}

Init ==
    /\ primary = [k \in Categories |-> Absent]
    /\ backup = [k \in Categories |-> Absent]
    /\ intact = [k \in Categories |-> TRUE]
    /\ lock_file = "none"
    /\ sj = IdleCall
    /\ stored = [k \in Categories |-> 0]
    /\ precrash = [k \in Categories |-> Absent]
    /\ budget = [calls |-> 0, faults |-> 0, crashes |-> 0]
    /\ InitManager
    /\ cfg \in [manual : BOOLEAN, once : BOOLEAN]
    /\ out_dir \in OutDirs
    /\ cfg.once = Exists(out_dir.success)
    /\ keys = <<>>
    /\ InitUnits("")

(***************************************************************************)
(* Operator input (lines 165-200).                                         *)
(***************************************************************************)
\* It pauses whatever the status is.
PauseApplication_any(st) == PAUSED

\* pause_application (lines 182-187).
PauseApplication(st) == IF st = RUNNING THEN PAUSED ELSE st

\* resume_application (lines 189-194).
ResumeApplication(st) == IF st = PAUSED THEN RUNNING ELSE st

\* stop_application (lines 196-200), its effect on the status.
StopApplication(st) == STOPPED

\* handle_user_input (lines 165-180): the status after reading key k.
HandleUserInput(st, k) ==
    CASE k = "p" -> PauseApplication(st)
      [] k = "r" -> ResumeApplication(st)
      [] k = "q" -> StopApplication(st)
      [] OTHER -> st

\* One prompt of handle_user_input: the operator types a key or lets the
\* prompt time out.
ReadKey(k) ==
    /\ k # "" => Len(keys) < MaxKeys
    /\ keys' = IF k = "" THEN keys ELSE Append(keys, k)
    /\ status' = HandleUserInput(status, k)
    /\ reports' = IF k = "q" THEN [reports EXCEPT !.stop = 1] ELSE reports
    /\ op' = "input"

(***************************************************************************)
(* write_to_file (lines 686-688): the whole store_job call, with no other  *)
(* holder of the lock file and no I/O error.                               *)
(***************************************************************************)
StoreJob(category, data) ==
    LET b == BackupCopy(primary[category], backup[category])
        r == ReadExisting(primary[category], b)
    IN  /\ backup' = [backup EXCEPT ![category] = b]
        /\ primary' = [primary EXCEPT ![category] = WriteBack(r.data, data)]
        /\ stored' = [stored EXCEPT ![category] = @ + 1]
        /\ lock_file' = ReleaseLock(IF lock_file = "none"
                                    THEN "self" ELSE lock_file)
        /\ UNCHANGED <<sj, intact, precrash, budget>>

NoStore == UNCHANGED storeVars

(***************************************************************************)
(* The checks of _should_skip_job and of apply_jobs.                       *)
(***************************************************************************)
\* The range taken as exclusive of its ends.
IsApplicantCountInRange_exclusive(count) ==
    JOB_MIN_APPLICATIONS < count /\ count < JOB_MAX_APPLICATIONS

\* _is_applicant_count_in_range (lines 655-657).
IsApplicantCountInRange(count) ==
    JOB_MIN_APPLICATIONS <= count /\ count <= JOB_MAX_APPLICATIONS

\* is_previously_failed_to_apply (lines 727-747), on failed.json of
\* output_file_directory; an unparsable file answers False.
IsPreviouslyFailedToApply(link) ==
    /\ out_dir.failed.t = "list"
    /\ \E i \in 1..Len(out_dir.failed.v) : out_dir.failed.v[i].link = link

\* Lines 731-733: the check creates an empty failed.json when there is
\* none.
FailedFileAfterCheck ==
    IF Exists(out_dir.failed) THEN out_dir.failed ELSE JsonList(<<>>)

\* is_blacklisted (lines 690-699): the blacklist patterns, or a seen link.
IsBlacklisted(job) ==
    \/ job.blacklisted
    \/ \E i \in 1..Len(seen_jobs) : seen_jobs[i] = job.link

\* is_already_applied_to_job (lines 701-705).
IsAlreadyAppliedToJob(job) ==
    \E i \in 1..Len(seen_jobs) : seen_jobs[i] = job.link

\* is_already_applied_to_company (lines 707-725), on success.json of
\* output_file_directory.
IsAlreadyAppliedToCompany(job) ==
    /\ cfg.once
    /\ out_dir.success.t = "list"
    /\ \E i \in 1..Len(out_dir.success.v) :
          out_dir.success.v[i].company = job.company

\* The outcome of lines 613-627 for a posting: the reason it is skipped
\* for, or "apply".
FilterOutcome(job) ==
    IF job.count # NoCount /\ ~IsApplicantCountInRange(job.count)
        THEN "outside"
    ELSE IF IsPreviouslyFailedToApply(job.link) THEN "failed_before"
    ELSE IF IsBlacklisted(job) THEN "blacklisted"
    ELSE IF IsAlreadyAppliedToJob(job) THEN "applied_job"
    ELSE IF IsAlreadyAppliedToCompany(job) THEN "applied_company"
    ELSE "apply"

(***************************************************************************)
(* start_applying: the loop over searches and pages (lines 347-443).       *)
(***************************************************************************)
\* Lines 349-366: start the session, build the JobApplier and the searches.
StartApplying ==
    /\ pc = "start"
    /\ pc' = "search"
    /\ op' = "start_session"
    /\ NoStore
    /\ UNCHANGED <<cfg, out_dir, status, stats, seen_jobs, search,
                   page_count, jobs, job_list, ja, keys,
                   reports, raises, listing>>
    /\ UNCHANGED unitVars

\* Lines 369-376: the head of the for loop.
SearchHead ==
    /\ pc = "search"
    /\ IF search > NumSearches \/ status = STOPPED
       THEN pc' = "finally"
       ELSE pc' = "page_loop"
    /\ op' = "none"
    /\ NoStore
    /\ UNCHANGED <<cfg, out_dir, status, stats, seen_jobs, search,
                   page_count, jobs, job_list, ja, keys, reports, raises, listing>>
    /\ UNCHANGED unitVars

\* Line 379: the while loop ends when the status is STOPPED, and the for
\* loop takes the next search.
PageLoop ==
    /\ pc = "page_loop"
    /\ IF status = STOPPED
       THEN search' = search + 1 /\ pc' = "search"
       ELSE UNCHANGED search /\ pc' = "pause_check"
    /\ op' = "none"
    /\ NoStore
    /\ UNCHANGED <<cfg, out_dir, status, stats, seen_jobs, 
                   page_count, jobs, job_list, ja, keys, reports, raises, listing>>
    /\ UNCHANGED unitVars

\* Lines 381-385: one turn of the pause loop.
PausedPoll(k) ==
    /\ pc = "pause_check"
    /\ status = PAUSED
    /\ ReadKey(k)
    /\ NoStore
    /\ UNCHANGED <<cfg, out_dir, stats, seen_jobs, pc, search, 
                   page_count, jobs, job_list, ja, raises, listing>>
    /\ UNCHANGED unitVars

\* Lines 383 and 436-438: the poll of the pause loop raises (it is outside
\* the page's try block): the search is abandoned for the next one.
PausedPollRaise ==
    /\ pc = "pause_check"
    /\ status = PAUSED
    /\ op' = "log_error"
    /\ search' = search + 1
    /\ pc' = "search"
    /\ NoStore
    /\ UNCHANGED <<cfg, out_dir, status, stats, seen_jobs, 
                   page_count, jobs, job_list, ja, keys, reports, raises,
                   listing>>
    /\ UNCHANGED unitVars

\* Lines 387-393: count the page and poll the operator.  The count stops
\* one past MaxPages.
PageInput(k) ==
    /\ pc = "pause_check"
    /\ status # PAUSED
    /\ page_count' = IF page_count <= MaxPages THEN page_count + 1
                     ELSE page_count
    /\ ReadKey(k)
    /\ pc' = "next_page"
    /\ NoStore
    /\ UNCHANGED <<cfg, out_dir, stats, seen_jobs, search, jobs, job_list,
                   ja, raises, listing>>
    /\ UNCHANGED unitVars

\* The exception leaves start_applying through its finally clause.
AfterPageError_propagate(j) == "propagate"

\* Lines 430-434: the handler of the page's try block: leave the page
\* loop when no page of the run has yielded postings, else go on.
AfterPageError(j) == IF j \in {"unset", "empty"} THEN "break" ELSE "continue"

\* The listing still has something for this page.
ListingLeft == page_count <= MaxPages /\ listing > 0

\* Lines 396-407: navigate, record the request, sleep, and end the session
\* when the governor says so.
NextJobPage(outcome) ==
    /\ pc = "next_page"
    /\ outcome \in {"ok", "raise", "end_session"}
    /\ op' = IF outcome = "raise" THEN "log_error" ELSE "next_job_page"
    /\ CASE outcome = "ok" ->
              /\ pc' = "get_jobs"
              /\ UNCHANGED <<status, reports, search>>
         [] outcome = "end_session" ->
              /\ status' = StopApplication(status)
              /\ reports' = [reports EXCEPT !.stop = 1]
              /\ pc' = "finally"
              /\ UNCHANGED search
         [] outcome = "raise" ->
              /\ CASE AfterPageError(jobs) = "break" ->
                        search' = search + 1 /\ pc' = "search"
                   [] AfterPageError(jobs) = "continue" ->
                        UNCHANGED search /\ pc' = "page_loop"
                   [] OTHER ->
                        UNCHANGED search /\ pc' = "finally"
              /\ UNCHANGED <<status, reports>>
    /\ NoStore
    /\ UNCHANGED <<cfg, out_dir, stats, seen_jobs, page_count,
                   jobs, job_list, ja, keys, raises, listing>>
    /\ UNCHANGED unitVars

\* Lines 409-415: list the postings of the page; none ends the search.
GetJobs(found) ==
    /\ pc = "get_jobs"
    /\ found \in BOOLEAN
    /\ found => ListingLeft
    /\ op' = "get_jobs_from_page"
    /\ IF found
       THEN /\ jobs' = "nonempty"
            /\ pc' = "apply_jobs"
            /\ UNCHANGED search
       ELSE /\ jobs' = "empty"
            /\ search' = search + 1
            /\ pc' = "search"
    /\ NoStore
    /\ UNCHANGED <<cfg, out_dir, status, stats, seen_jobs, 
                   page_count, job_list, ja, keys, reports, raises, listing>>
    /\ UNCHANGED unitVars

\* Lines 419-428: the page is done; wait out the inter-page time.
PageEnd ==
    /\ pc = "page_end"
    /\ pc' = "page_loop"
    /\ op' = "sleep"
    /\ NoStore
    /\ UNCHANGED <<cfg, out_dir, status, stats, seen_jobs, search,
                   page_count, jobs, job_list, ja, keys,
                   reports, raises, listing>>
    /\ UNCHANGED unitVars

\* Lines 440-443: the finally clause.
Finally ==
    /\ pc = "finally"
    /\ reports' = [reports EXCEPT !.final = 1]
    /\ pc' = "returned"
    /\ op' = "show_application_stats"
    /\ NoStore
    /\ UNCHANGED <<cfg, out_dir, status, stats, seen_jobs, search,
                   page_count, jobs, job_list, ja, keys, raises, listing>>
    /\ UNCHANGED unitVars

(***************************************************************************)
(* apply_jobs (lines 581-639).                                             *)
(***************************************************************************)
\* Lines 584-599: list the postings of the page again and build job_list.
ApplyJobsStart(found) ==
    /\ pc = "apply_jobs"
    /\ op' = "get_jobs_from_page"
    /\ IF found
       THEN \E list \in PageLists :
               /\ Len(list) <= listing
               /\ job_list' = list
               /\ listing' = listing - Len(list)
               /\ pc' = "job_loop"
       ELSE /\ job_list' = <<>>
            /\ pc' = "page_end"
            /\ UNCHANGED listing
    /\ NoStore
    /\ UNCHANGED <<cfg, out_dir, status, stats, seen_jobs, search,
                   page_count, jobs, ja, keys, reports, raises>>
    /\ UNCHANGED unitVars

\* Line 601 with no posting left: apply_jobs returns.
JobLoopEnd ==
    /\ pc = "job_loop"
    /\ job_list = <<>>
    /\ pc' = "page_end"
    /\ op' = "none"
    /\ NoStore
    /\ UNCHANGED <<cfg, out_dir, status, stats, seen_jobs, search,
                   page_count, jobs, job_list, ja, keys,
                   reports, raises, listing>>
    /\ UNCHANGED unitVars

\* Lines 603-605: one turn of the pause loop of apply_jobs.
JobPausedPoll(k) ==
    /\ pc = "job_loop"
    /\ job_list # <<>>
    /\ status = PAUSED
    /\ ReadKey(k)
    /\ NoStore
    /\ UNCHANGED <<cfg, out_dir, stats, seen_jobs, pc, search, 
                   page_count, jobs, job_list, ja, raises, listing>>
    /\ UNCHANGED unitVars

\* Lines 607-608: apply_jobs returns when the status is STOPPED.
JobStopCheck ==
    /\ pc = "job_loop"
    /\ job_list # <<>>
    /\ status = STOPPED
    /\ job_list' = <<>>
    /\ pc' = "page_end"
    /\ op' = "none"
    /\ NoStore
    /\ UNCHANGED <<cfg, out_dir, status, stats, seen_jobs, search,
                   page_count, jobs, ja, keys, reports, raises, listing>>
    /\ UNCHANGED unitVars

\* Line 610: poll the operator for the posting.
JobInput(k) ==
    /\ pc = "job_loop"
    /\ job_list # <<>>
    /\ status = RUNNING
    /\ ReadKey(k)
    /\ pc' = "job_filter"
    /\ NoStore
    /\ UNCHANGED <<cfg, out_dir, stats, seen_jobs, search, 
                   page_count, jobs, job_list, ja, raises, listing>>
    /\ UNCHANGED unitVars

\* Lines 613-632: the applicant count, _should_skip_job and the apply
\* method decide whether the posting goes to _apply_to_job.
JobFilter ==
    /\ pc = "job_filter"
    /\ LET job == Head(job_list)
           o == FilterOutcome(job)
           rec(reason) == OutcomeRecord(job.link, job.company, reason)
       IN  /\ out_dir' = IF o = "outside" THEN out_dir
                         ELSE [out_dir EXCEPT !.failed = FailedFileAfterCheck]
           /\ CASE o = "outside" -> StoreJob("skipped", rec(ReasonOutside))
                [] o = "blacklisted" ->
                       StoreJob("skipped", rec(ReasonBlacklisted))
                [] o = "applied_job" ->
                       StoreJob("skipped", rec(ReasonAppliedJob))
                [] o = "applied_company" ->
                       StoreJob("skipped", rec(ReasonAppliedCompany))
                [] OTHER -> NoStore
           /\ stats' = IF o \in {"failed_before", "blacklisted",
                                 "applied_job", "applied_company"}
                       THEN [stats EXCEPT !.skipped = @ + 1]
                       ELSE stats
           /\ op' = IF o \in {"outside", "blacklisted", "applied_job",
                              "applied_company"}
                    THEN "store_job" ELSE "none"
           /\ IF o = "apply" /\ job.apply_method \notin
                                    {"Continue", "Applied", "Apply"}
              THEN pc' = "job_apply" /\ UNCHANGED job_list
              ELSE pc' = "job_loop" /\ job_list' = Tail(job_list)
    /\ UNCHANGED <<cfg, status, seen_jobs, search, page_count,
                   jobs, ja, keys, reports, raises, listing>>
    /\ UNCHANGED unitVars

(***************************************************************************)
(* JobApplier.job_apply (job_applier.py lines 125-224), called by          *)
(* _apply_to_job (job_manager.py line 450).                                *)
(***************************************************************************)
\* Where job_apply goes after the evaluation (lines 170-176).
AfterEvaluation(manual_mode, is_suitable) ==
    IF manual_mode THEN "return" ELSE "click"

\* Lines 143-173: open the posting, read it, ask the oracle.
JobApplyEvaluate(outcome) ==
    /\ pc = "job_apply"
    /\ outcome \in {"suitable", "unsuitable", "raise"}
    /\ op' = "job_apply"
    /\ IF outcome = "raise"
       THEN pc' = "ja_except" /\ ja' = NoCall
       ELSE LET b == (outcome = "suitable")
            IN  IF AfterEvaluation(cfg.manual, b) = "return"
                THEN /\ pc' = "apply_result"
                     /\ ja' = [is_suitable |-> b, result |-> b]
                ELSE /\ pc' = "ja_click"
                     /\ ja' = [is_suitable |-> b, result |-> FALSE]
    /\ NoStore
    /\ UNCHANGED <<cfg, out_dir, status, stats, seen_jobs, search,
                   page_count, jobs, job_list, keys, reports,
                   raises, listing>>
    /\ UNCHANGED unitVars

\* Line 176: click_apply_button.
JobApplyClick(raised) ==
    /\ pc = "ja_click"
    /\ op' = "click_apply_button"
    /\ pc' = IF raised THEN "ja_except" ELSE "ja_fill"
    /\ NoStore
    /\ UNCHANGED <<cfg, out_dir, status, stats, seen_jobs, search,
                   page_count, jobs, job_list, ja, keys,
                   reports, raises, listing>>
    /\ UNCHANGED unitVars

\* Lines 207-213: _fill_application_form, then return True.
JobApplyFill(raised) ==
    /\ pc = "ja_fill"
    /\ op' = "fill_application_form"
    /\ IF raised
       THEN pc' = "ja_except" /\ UNCHANGED ja
       ELSE pc' = "apply_result" /\ ja' = [ja EXCEPT !.result = TRUE]
    /\ NoStore
    /\ UNCHANGED <<cfg, out_dir, status, stats, seen_jobs, search,
                   page_count, jobs, job_list, keys, reports,
                   raises, listing>>
    /\ UNCHANGED unitVars

\* Lines 215-224: save the form and raise to the caller.
JobApplyExcept ==
    /\ pc = "ja_except"
    /\ op' = "save"
    /\ raises' = raises + 1
    /\ pc' = "job_error"
    /\ NoStore
    /\ UNCHANGED <<cfg, out_dir, status, stats, seen_jobs, search,
                   page_count, jobs, job_list, ja, keys,
                   reports, listing>>
    /\ UNCHANGED unitVars

(***************************************************************************)
(* _apply_to_job after job_apply, and the handlers of apply_jobs.          *)
(***************************************************************************)
ErrorHandledAt_page == "page"

\* Where the exception of _apply_to_job is handled: by the except clause
\* of line 634, inside the loop over the postings.
ErrorHandledAt == "job"

\* Lines 634-636 and _handle_application_error (lines 680-684).
HandleApplicationError ==
    /\ pc = "job_error"
    /\ LET job == Head(job_list)
       IN  StoreJob("failed",
                    OutcomeRecord(job.link, job.company, ReasonError))
    /\ stats' = [stats EXCEPT !.failed = @ + 1]
    /\ op' = "store_job"
    /\ ja' = NoCall
    /\ IF ErrorHandledAt = "job"
       THEN pc' = "job_loop" /\ job_list' = Tail(job_list)
       ELSE pc' = "page_end" /\ job_list' = <<>>
    /\ UNCHANGED <<cfg, out_dir, status, seen_jobs, search, 
                   page_count, jobs, keys, reports, raises, listing>>
    /\ UNCHANGED unitVars

\* _apply_to_job lines 452-477 and apply_jobs line 633: record the
\* outcome, call apply_rate_limit (it returns at once: nothing sets
\* last_application_time), count the application.  In manual mode the
\* record is written only when the tailored resume was created.
ApplyResult(resume_created) ==
    /\ pc = "apply_result"
    /\ resume_created \in BOOLEAN
    /\ ~(ja.result /\ cfg.manual) => resume_created
    /\ LET job == Head(job_list)
           rec == OutcomeRecord(job.link, job.company, NoReason)
       IN  IF ja.result
           THEN IF cfg.manual
                THEN IF resume_created
                     THEN StoreJob("manual_apply", rec) /\ op' = "store_job"
                     ELSE NoStore /\ op' = "none"
                ELSE StoreJob("success", rec) /\ op' = "store_job"
           ELSE NoStore /\ op' = "none"
    /\ stats' = [stats EXCEPT !.applied = @ + 1]
    /\ ja' = NoCall
    /\ job_list' = Tail(job_list)
    /\ pc' = "job_loop"
    /\ UNCHANGED <<cfg, out_dir, status, seen_jobs, search, 
                   page_count, jobs, keys, reports, raises, listing>>
    /\ UNCHANGED unitVars

Next ==
    \/ StartApplying
    \/ SearchHead
    \/ PageLoop
    \/ \E k \in Keys : PausedPoll(k)
    \/ PausedPollRaise
    \/ \E k \in Keys : PageInput(k)
    \/ \E o \in {"ok", "raise", "end_session"} : NextJobPage(o)
    \/ \E f \in BOOLEAN : GetJobs(f)
    \/ \E f \in BOOLEAN : ApplyJobsStart(f)
    \/ JobLoopEnd
    \/ \E k \in Keys : JobPausedPoll(k)
    \/ JobStopCheck
    \/ \E k \in Keys : JobInput(k)
    \/ JobFilter
    \/ \E o \in {"suitable", "unsuitable", "raise"} : JobApplyEvaluate(o)
    \/ \E r \in BOOLEAN : JobApplyClick(r)
    \/ \E r \in BOOLEAN : JobApplyFill(r)
    \/ JobApplyExcept
    \/ HandleApplicationError
    \/ \E c \in BOOLEAN : ApplyResult(c)
    \/ PageEnd
    \/ Finally

Spec == Init /\ [][Next]_vars

\* start_applying runs on: no step of it is put off for ever.
SpecFair == Spec /\ WF_vars(Next)

(***************************************************************************)
(* The filters of apply_jobs on one posting of any kind (SpecFilter).      *)
(***************************************************************************)
\* Postings as the filters tell them apart: by link, company, applicant
\* count and blacklist match.
FilterPostings ==
    {Posting(l, c, n, b) :
        l \in {"L1", "L2"}, c \in {"acme", "bolt"},
        n \in {NoCount, 0, 25, 51}, b \in BOOLEAN}

\* apply_jobs at line 601 with one posting taken from the page.
InitFilter ==
    /\ primary = [k \in Categories |-> Absent]
    /\ backup = [k \in Categories |-> Absent]
    /\ intact = [k \in Categories |-> TRUE]
    /\ lock_file = "none"
    /\ sj = IdleCall
    /\ stored = [k \in Categories |-> 0]
    /\ precrash = [k \in Categories |-> Absent]
    /\ budget = [calls |-> 0, faults |-> 0, crashes |-> 0]
    /\ status = RUNNING
    /\ stats = [applied |-> 0, skipped |-> 0, failed |-> 0]
    /\ seen_jobs = <<>>
    /\ pc = "job_loop"
    /\ search = 1
    /\ page_count = 1
    /\ jobs = "nonempty"
    /\ \E job \in FilterPostings : job_list = <<job>>
    /\ ja = NoCall
    /\ op = "get_jobs_from_page"
    /\ reports = [stop |-> 0, final |-> 0]
    /\ raises = 0
    /\ listing = 0
    /\ cfg \in [manual : BOOLEAN, once : BOOLEAN]
    /\ out_dir \in OutDirs
    /\ cfg.once = Exists(out_dir.success)
    /\ keys = <<>>
    /\ InitUnits("")

\* The loop of apply_jobs on that posting: the prompt, the filters, the
\* end of the loop.
SpecFilter ==
    /\ InitFilter
    /\ [][\/ \E k \in Keys : JobInput(k)
          \/ JobFilter
          \/ JobLoopEnd]_vars

(***************************************************************************)
(* Calls of the functions without side effects, each made on its own from  *)
(* the initial state (SpecCalls).                                          *)
(***************************************************************************)

InitIdle ==
    /\ primary = [k \in Categories |-> Absent]
    /\ backup = [k \in Categories |-> Absent]
    /\ intact = [k \in Categories |-> TRUE]
    /\ lock_file = "none"
    /\ sj = IdleCall
    /\ stored = [k \in Categories |-> 0]
    /\ precrash = [k \in Categories |-> Absent]
    /\ budget = [calls |-> 0, faults |-> 0, crashes |-> 0]
    /\ InitManager
    /\ cfg = [manual |-> MANUAL_MODE, once |-> FALSE]
    /\ out_dir = [failed |-> Absent, success |-> Absent]
    /\ keys = <<>>

\* A call of _is_applicant_count_in_range (lines 655-657).
CallIsApplicantCountInRange(c) ==
    /\ fn = NoFn
    /\ fn' = [name |-> "_is_applicant_count_in_range", arg |-> c,
              out |-> IsApplicantCountInRange(c)]
    /\ UNCHANGED <<storeVars, runVars, pace, fa, ac, sm,
                   pg, cv, collect>>

\* The marker lists of _detect_language (lines 76-83).
spanish_markers ==
    {"el", "la", "los", "las", "un", "una", "unos", "unas", "trabajo",
     "años", "experiencia", "desarrollador", "empresa", "requisitos",
     "conocimientos"}

english_markers ==
    {"the", "we", "are", "is", "our", "you", "will", "requirements",
     "experience", "skills", "job", "responsibilities", "must", "have"}

\* A description is held as the pieces str.split() cuts it into at white
\* space; a piece keeps its capitals and its punctuation.
EnglishDescription ==
    <<"We", "are", "looking", "for", "an", "experienced", "developer",
      "with", "strong", "skills...">>

SpanishDescription ==
    <<"Buscamos", "un", "desarrollador", "con", "experiencia", "y",
      "conocimientos">>


Descriptions ==
    {EnglishDescription, SpanishDescription, <<>>}
    \cup UNION {[1..n -> {"The", "we", "is", "job.", "el", "La", "un",
                          "python"}] : n \in 1..MaxWords}

\* The number of pieces of a description found in a marker list, after
\* str.lower() on the pieces that hold a capital.
CountMarkers(text, markers) ==
    LET lower(w) == CASE w = "We" -> "we"
                      [] w = "Buscamos" -> "buscamos"
                      [] w = "The" -> "the"
                      [] w = "La" -> "la"
                      [] OTHER -> w
    IN  Cardinality({i \in 1..Len(text) : lower(text[i]) \in markers})

\* _detect_language (lines 70-97).
DetectLanguage(text) ==
    LET spanish_count == CountMarkers(text, spanish_markers)
        english_count == CountMarkers(text, english_markers)
    IN  IF spanish_count > english_count /\ spanish_count > 2 THEN "es"
        ELSE IF english_count > spanish_count /\ english_count > 2
        THEN "en"
        ELSE "none"

CallDetectLanguage(text) ==
    /\ fn = NoFn
    /\ fn' = [name |-> "_detect_language", arg |-> text,
              out |-> DetectLanguage(text)]
    /\ UNCHANGED <<storeVars, runVars, pace, fa, ac, sm,
                   pg, cv, collect>>

\* Every count and every description of the bounds.
SpecCalls ==
    /\ LET start == NoFn
       IN  InitIdle /\ InitUnits("fn") /\ fn = start
    /\ [][\/ \E c \in (0 - MaxCount)..MaxCount : CallIsApplicantCountInRange(c)
          \/ \E text \in Descriptions : CallDetectLanguage(text)]_vars

(***************************************************************************)
(* The pacing governor: SessionManager of anti_detection.py on a wall      *)
(* clock that counts whole hours (SpecSession).                            *)
(***************************************************************************)


\* What session_data.json can hold: nothing, bytes that cannot be read or
\* parsed, JSON that is not the expected object, and the object that
\* _save_session_data writes.
SessionFiles ==
    {Absent, [t |-> "unreadable", v |-> <<>>], Bad, JsonList(<<>>),
     JsonObj([last_session |-> NoTime])}
    \cup {JsonObj([last_session |-> l, daily_requests |-> [d \in {0} |-> n]]) :
            l \in {NoTime, 0}, n \in {0, 100, 101, 300}}

\* _load_session_data (lines 20-27): the empty state for a missing file
\* and for any error of open or json.load; otherwise whatever was parsed.
LoadSessionData(file) ==
    IF file.t \in {"absent", "unreadable", "bad"} THEN EmptySessionData
    ELSE file.v[1]

\* _get_requests_today (lines 33-35) at hour `now` of the wall clock:
\* today's entry of daily_requests, 0 when there is none.
GetRequestsToday(data, now) ==
    IF now \div 24 \in DOMAIN data.daily_requests
    THEN data.daily_requests[now \div 24] ELSE 0

\* SessionManager.__init__ (lines 14-18).  _get_requests_today (lines
\* 33-35) subscripts the loaded value with "daily_requests": it needs an
\* object that has the key.
NewSessionManager ==
    /\ sm.state = "none"
    /\ sm' = IF \/ sm.file.t \in {"absent", "unreadable", "bad"}
                \/ /\ sm.file.t = "obj"
                   /\ "daily_requests" \in DOMAIN sm.file.v[1]
             THEN [sm EXCEPT
                     !.state = "built",
                     !.session_data = LoadSessionData(sm.file),
                     !.total_requests_today =
                         GetRequestsToday(LoadSessionData(sm.file), sm.now),
                     !.last = [op |-> "__init__", out |-> TRUE]]
             ELSE [sm EXCEPT !.state = "raised",
                             !.last = [op |-> "__init__", out |-> FALSE]]
    /\ UNCHANGED <<storeVars, runVars, fn, pace, fa, ac, pg, cv, collect>>

\* start_session (lines 37-56): stamps the session and saves the record.
StartSession ==
    /\ sm.state = "built"
    /\ LET data == [sm.session_data EXCEPT !.last_session = sm.now]
       IN  sm' = [sm EXCEPT !.session_data = data,
                            !.file = JsonObj(data),
                            !.last = [op |-> "start_session", out |-> TRUE]]
    /\ UNCHANGED <<storeVars, runVars, fn, pace, fa, ac, pg, cv, collect>>

\* record_request (lines 58-84): counts the request under today's date
\* and in total_requests_today; the record is saved one time in five.
RecordRequest(save) ==
    /\ sm.state = "built"
    /\ sm.requests < MaxRequests
    /\ LET today == sm.now \div 24
           counts == sm.session_data.daily_requests
           data == [sm.session_data EXCEPT !.daily_requests =
                       [d \in DOMAIN counts \cup {today} |->
                           IF d = today
                           THEN GetRequestsToday(sm.session_data, sm.now) + 1
                           ELSE counts[d]]]
       IN  sm' = [sm EXCEPT
                    !.session_data = data,
                    !.total_requests_today = @ + 1,
                    !.requests = @ + 1,
                    !.file = IF save THEN JsonObj(data) ELSE @,
                    !.last = [op |-> "record_request", out |-> save]]
    /\ UNCHANGED <<storeVars, runVars, fn, pace, fa, ac, pg, cv, collect>>

\* should_end_session (lines 110-129).
ShouldEndSession(total, hour, last_session, now) ==
    IF total > 300 THEN TRUE
    ELSE IF 1 <= hour /\ hour <= 5 THEN total > 100
    ELSE IF last_session # NoTime /\ now - last_session > 3 THEN TRUE
    ELSE FALSE

CallShouldEndSession ==
    /\ sm.state = "built"
    /\ sm' = [sm EXCEPT !.last =
                 [op |-> "should_end_session",
                  out |-> ShouldEndSession(sm.total_requests_today,
                                           sm.now % 24,
                                           sm.session_data.last_session,
                                           sm.now)]]
    /\ UNCHANGED <<storeVars, runVars, fn, pace, fa, ac, pg, cv, collect>>

\* An hour passes.
ClockTick ==
    /\ sm.now < MaxClock
    /\ sm' = [sm EXCEPT !.now = @ + 1,
                        !.last = [op |-> "tick", out |-> FALSE]]
    /\ UNCHANGED <<storeVars, runVars, fn, pace, fa, ac, pg, cv, collect>>

\* Any session file, at any hour of the day.
SpecSession ==
    /\ \E f \in SessionFiles, h \in 0..23 :
          InitIdle /\ InitUnits("sm") /\ sm = NewSession(f, h)
    /\ [][\/ NewSessionManager
          \/ StartSession
          \/ \E save \in BOOLEAN : RecordRequest(save)
          \/ CallShouldEndSession
          \/ ClockTick]_vars

(***************************************************************************)
(* The pacing of start_applying: its navigations, its governor calls and   *)
(* its waits on a clock that counts seconds (SpecPages).                   *)
(***************************************************************************)

\* Lines 387-407: count the page, navigate to it with next_job_page, then
\* record the request with the governor and sleep the delay it returns;
\* the governor can end the session.  A navigation that raises goes to
\* the handler of lines 430-434, which goes on with another page.
FetchPage(outcome, delay) ==
    /\ pg.pc = "fetch"
    /\ pg.page_count < MaxFetches
    /\ outcome \in {"ok", "raise", "end_session"}
    /\ pg' = [pg EXCEPT
                !.page_count = @ + 1,
                !.prev_fetch = pg.last_fetch,
                !.last_fetch = pg.now,
                !.navs = @ + 1,
                !.consulted = (outcome # "raise"),
                !.now = IF outcome = "raise" THEN @ ELSE @ + delay,
                !.pc = CASE outcome = "ok" -> "get_jobs"
                         [] outcome = "raise" -> "fetch"
                         [] OTHER -> "done"]
    /\ UNCHANGED <<storeVars, runVars, fn, pace, fa, ac, sm, cv, collect>>

\* Lines 409-418: an empty page ends the search and the loop goes to the
\* first page of the next one; else apply_jobs takes the postings, n of
\* which pass the filters.
PageJobs(found, n) ==
    /\ pg.pc = "get_jobs"
    /\ pg' = IF found THEN [pg EXCEPT !.left = n, !.pc = "apply"]
             ELSE [pg EXCEPT !.pc = "fetch"]
    /\ UNCHANGED <<storeVars, runVars, fn, pace, fa, ac, sm, cv, collect>>

\* _apply_to_job for one posting: job_apply navigates to the posting with
\* goto_job_page (job_applier.py line 145); no governor call is made in
\* job_apply or after it.
ApplyPosting(dur) ==
    /\ pg.pc = "apply"
    /\ pg.left > 0
    /\ pg' = [pg EXCEPT !.left = @ - 1, !.navs = @ + 1,
                        !.consulted = FALSE, !.now = @ + dur]
    /\ UNCHANGED <<storeVars, runVars, fn, pace, fa, ac, sm, cv, collect>>

\* Lines 421-427 and handle_sleep_timer (lines 264-280): wait until
\* next_page_time unless the operator answers 'y', then set the next one.
PageWait(skip) ==
    /\ pg.pc = "apply"
    /\ pg.left = 0
    /\ LET time_until_next == pg.next_page_time - pg.now
           after == IF time_until_next > 0 /\ ~skip
                    THEN pg.now + time_until_next ELSE pg.now
       IN  pg' = [pg EXCEPT
                    !.now = after,
                    !.next_page_time = after + MINIMUM_WAIT_TIME_IN_SECONDS,
                    !.pc = "fetch"]
    /\ UNCHANGED <<storeVars, runVars, fn, pace, fa, ac, sm, cv, collect>>

\* get_next_request_delay (lines 96-108) returns 5 seconds here; one
\* job_apply call with its reading pauses takes 15 or 120 seconds.
SpecPages ==
    /\ LET start == NewPages(0)
       IN  InitIdle /\ InitUnits("pg") /\ pg = start
    /\ [][\/ \E o \in {"ok", "raise", "end_session"}, d \in {5} :
                 FetchPage(o, d)
          \/ \E found \in BOOLEAN, n \in 0..MaxJobsPerPage : PageJobs(found, n)
          \/ \E dur \in {15, 120} : ApplyPosting(dur)
          \/ \E skip \in BOOLEAN : PageWait(skip)]_vars

(***************************************************************************)
(* The spacing of applications: _apply_to_job and apply_rate_limit on a    *)
(* clock (SpecPacing).                                                     *)
(***************************************************************************)


\* apply_rate_limit (lines 246-262): the seconds it sleeps.
ApplyRateLimit(last, t, delay, key) ==
    IF last = NoTime THEN 0
    ELSE IF t - last < delay
         THEN IF key = "y" THEN 0 ELSE delay - (t - last)
         ELSE 0


\* _apply_to_job (lines 445-477) for the next posting of apply_jobs, gap
\* seconds after the previous one: job_apply and the record take dur
\* seconds, then apply_rate_limit runs with the operator's key.
ApplyToJob(gap, dur, key) ==
    /\ pace.apps < MaxApps
    /\ LET start == pace.now + gap
           end == start + dur
           last == pace.last_application_time
           delay == pace.min_delay_between_apps
       IN  pace' = [pace EXCEPT
                      !.apps = @ + 1,
                      !.start = start,
                      !.end = end,
                      !.skip = /\ last # NoTime /\ end - last < delay
                              /\ key = "y",
                      !.prev_end = pace.end,
                      !.prev_skip = pace.skip,
                      !.now = end + ApplyRateLimit(last, end, delay, key)]
    /\ UNCHANGED <<storeVars, runVars, fn, fa, ac, sm,
                   pg, cv, collect>>

\* min_delay_between_apps is random.uniform(45, 75) of line 161, in whole
\* seconds; a job_apply call and its bookkeeping take 10, 50 or 100
\* seconds, and apply_jobs spends 0 or 5 seconds between two postings (the
\* prompt of line 610 times out after 5).
SpecPacing ==
    /\ \E d \in {45, 60, 75} :
          InitIdle /\ InitUnits("pace") /\ pace = NewPace(d)
    /\ [][\/ \E g \in {0, 5}, d \in {10, 50, 100}, k \in {"y", ""} :
                 ApplyToJob(g, d, k)]_vars

(***************************************************************************)
(* JobApplier.job_apply in automated mode, from click_apply_button on:     *)
(* _fill_application_form, fill_up and the upload fields (SpecApplier).    *)
(***************************************************************************)

NoEffect ==
    [calls |-> {}, detected_none |-> FALSE, generated |-> 0,
     oversize |-> FALSE, error |-> "none"]

\* _create_and_upload_resume lines 382-462 and _create_and_upload_cover_letter
\* lines 485-583: generate the file, check its size and its extension
\* (always ".pdf", which is allowed), upload it.  gen is what the
\* generator and the upload do.
CreateAndUpload(gen) ==
    CASE gen = "fail" -> [NoEffect EXCEPT !.error = "generate"]
      [] gen = "oversize" ->
            [NoEffect EXCEPT !.generated = 1, !.oversize = TRUE,
                             !.error = "size"]
      [] gen = "upload_fail" ->
            [NoEffect EXCEPT !.generated = 1, !.error = "upload"]
      [] OTHER -> [NoEffect EXCEPT !.generated = 1, !.calls = {"send_keys"}]


\* Lines 338-360: the upload from resume_path, or a generated resume.
UploadFromPath(lang, is_dir, file_exists, gen) ==
    IF is_dir
    THEN IF lang = "none"
         THEN [NoEffect EXCEPT !.detected_none = TRUE, !.error = "language"]
         ELSE IF file_exists
              THEN [NoEffect EXCEPT !.calls = {"upload_file"}]
              ELSE CreateAndUpload(gen)
    ELSE CreateAndUpload(gen)

\* _handle_upload_fields for a resume field (lines 288-360): with resumes
\* already uploaded to the site, select the one of the posting's language;
\* the ValueError of line 303 is raised inside the try block of line 292
\* and caught at line 333.
HandleResumeUpload(containers, match, lang, is_dir, file_exists, gen) ==
    IF containers /\ lang # "none" /\ match
    THEN [NoEffect EXCEPT !.calls = {"select_resume"}]
    ELSE LET r == UploadFromPath(lang, is_dir, file_exists, gen)
         IN  [r EXCEPT !.detected_none = @ \/ (containers /\ lang = "none")]

\* What processing the input elements of a form page can do
\* (_process_form_element, lines 270-277).
ElementEffects(lang, is_dir) ==
    {NoEffect, [NoEffect EXCEPT !.calls = {"fill_questions"}],
     [NoEffect EXCEPT !.error = "question"]}
    \cup {CreateAndUpload(g) : g \in {"ok", "fail", "oversize", "upload_fail"}}
    \cup {HandleResumeUpload(c, m, lang, is_dir, f, g) :
             c \in BOOLEAN, m \in BOOLEAN, f \in BOOLEAN,
             g \in {"ok", "fail", "oversize", "upload_fail"}}

\* job_apply lines 145-168: open the posting, read it and ask the oracle;
\* any of these calls can raise.
OpenAndEvaluate(raised) ==
    /\ fa.pc = "evaluate"
    /\ fa' = [fa EXCEPT !.calls = @ \cup {"goto_job_page"},
                        !.pc = IF raised THEN "except" ELSE "click_apply"]
    /\ UNCHANGED <<storeVars, runVars, fn, pace, ac, sm,
                   pg, cv, collect>>

\* job_apply line 176.
ClickApplyButton(raised) ==
    /\ fa.pc = "click_apply"
    /\ fa' = [fa EXCEPT !.calls = @ \cup {"click_apply_button"},
                        !.pc = IF raised THEN "except" ELSE "fill_first"]
    /\ UNCHANGED <<storeVars, runVars, fn, pace, ac, sm,
                   pg, cv, collect>>

\* fill_up (lines 255-268) on the current page: before the loop (line 238)
\* or inside it (line 241).  An exception raised in _process_form_element
\* is caught and logged there (lines 265-268).
FillUp ==
    /\ fa.pc \in {"fill_first", "fill_loop"}
    /\ \E e \in ElementEffects(fa.lang, fa.resume_is_dir) :
         fa' = [fa EXCEPT
                 !.calls = @ \cup e.calls,
                 !.detected_none = @ \/ e.detected_none,
                 !.generated = IF @ + e.generated <= MaxFills
                               THEN @ + e.generated ELSE @,
                 !.oversize = @ \/ e.oversize,
                 !.filled[fa.page] = IF @ < MaxFills THEN @ + 1 ELSE @,
                 !.logged = IF e.error # "none" THEN @ \cup {e.error}
                            ELSE @,
                 !.pc = IF fa.pc = "fill_first" THEN "loop_test"
                        ELSE "click_next"]
    /\ UNCHANGED <<storeVars, runVars, fn, pace, ac, sm,
                   pg, cv, collect>>

\* Line 240: has_next_button; the last page of the form has none.
HasNextButton ==
    /\ fa.pc = "loop_test"
    /\ fa' = [fa EXCEPT !.pc = IF fa.page < fa.pages THEN "fill_loop"
                                ELSE "submit_test"]
    /\ UNCHANGED <<storeVars, runVars, fn, pace, ac, sm,
                   pg, cv, collect>>

\* Lines 242-243: click_next_button and handle_errors, which raises when
\* the form shows an error.  The click brings the next page up, or the
\* form stays on its page with the next control still there.
ClickNextButton(raised, advanced) ==
    /\ fa.pc = "click_next"
    /\ fa' = [fa EXCEPT
                 !.calls = @ \cup {"click_next_button", "handle_errors"},
                 !.page = IF advanced THEN @ + 1 ELSE @,
                 !.pc = IF raised THEN "except" ELSE "loop_test"]
    /\ UNCHANGED <<storeVars, runVars, fn, pace, ac, sm,
                   pg, cv, collect>>

\* Lines 245-253: submit when there is a submit control, else only warn.
SubmitOrWarn(raised) ==
    /\ fa.pc = "submit_test"
    /\ raised => fa.has_submit
    /\ fa' = IF fa.has_submit
             THEN IF raised
                  THEN [fa EXCEPT
                          !.calls = @ \cup {"uncheck_follow_company",
                                            "click_submit_button"},
                          !.pc = "except"]
                  ELSE [fa EXCEPT
                          !.calls = @ \cup {"uncheck_follow_company",
                                            "click_submit_button",
                                            "ApplicationSaver.save"},
                          !.pc = "return"]
             ELSE [fa EXCEPT !.logged = @ \cup {"submit not found"},
                             !.pc = "return"]
    /\ UNCHANGED <<storeVars, runVars, fn, pace, ac, sm,
                   pg, cv, collect>>

\* job_apply lines 212-213.
JobApplyReturn ==
    /\ fa.pc = "return"
    /\ fa' = [fa EXCEPT !.result = "true", !.pc = "done"]
    /\ UNCHANGED <<storeVars, runVars, fn, pace, ac, sm,
                   pg, cv, collect>>

\* The handler raising without a call of save().
JobApplyRaise_nosave ==
    /\ fa.pc = "except"
    /\ fa' = [fa EXCEPT !.result = "raised", !.pc = "done"]
    /\ UNCHANGED <<storeVars, runVars, fn, pace, ac, sm,
                   pg, cv, collect>>

\* job_apply lines 215-224: save the application page and raise; when
\* save() raises, it is that exception that reaches the caller.
JobApplyRaise ==
    /\ fa.pc = "except"
    /\ fa' = [fa EXCEPT !.calls = @ \cup {"save"}, !.saves = @ + 1,
                        !.result = "raised", !.pc = "done"]
    /\ UNCHANGED <<storeVars, runVars, fn, pace, ac, sm,
                   pg, cv, collect>>

NextApplier ==
    \/ \E r \in BOOLEAN : OpenAndEvaluate(r)
    \/ \E r \in BOOLEAN : ClickApplyButton(r)
    \/ FillUp
    \/ HasNextButton
    \/ \E r, a \in BOOLEAN : ClickNextButton(r, a)
    \/ \E r \in BOOLEAN : SubmitOrWarn(r)
    \/ JobApplyReturn
    \/ JobApplyRaise

\* Every form of the bounds, with and without a submit button, for a
\* posting of any detected language and either kind of resume path.
SpecApplier ==
    /\ \E p \in 1..MaxFormPages, sub \in BOOLEAN,
          l \in {"en", "es", "none"}, d \in BOOLEAN :
          InitIdle /\ InitUnits("fa") /\ fa = NewForm(p, sub, l, d)
    /\ [][NextApplier]_vars

\* job_apply runs on: no step of it is put off for ever.
SpecApplierFair == SpecApplier /\ WF_vars(NextApplier)

(***************************************************************************)
(* The generation loop of _create_and_upload_resume (job_applier.py lines  *)
(* 382-462), one attempt at a time (SpecResumeFair).                      *)
(***************************************************************************)
NoHeader == -1

\* What one call of the document generator can end in: a file, an HTTP
\* 429 with its retry-after headers (seconds, milliseconds), another HTTP
\* status, an exception whose text holds "RateLimitError", or another
\* exception.
GeneratorResponses ==
    {[kind |-> k, retry_after |-> NoHeader, retry_after_ms |-> NoHeader] :
        k \in {"ok", "http_error", "rate_limit_error", "error"}}
    \cup {[kind |-> "429", retry_after |-> s, retry_after_ms |-> ms] :
            s \in {NoHeader, 5, 30}, ms \in {NoHeader, 500}}

\* Lines 401-420: the wait after a 429, in milliseconds.
WaitTime(r) ==
    IF r.retry_after # NoHeader THEN r.retry_after * 1000
    ELSE IF r.retry_after_ms # NoHeader THEN r.retry_after_ms
    ELSE 20000

\* What the loop does with a response: leave the loop (line 398), sleep
\* and go round again (lines 420 and 431), or raise (lines 423 and 433).
AfterResponse(r) ==
    CASE r.kind = "ok" -> "break"
      [] r.kind \in {"429", "rate_limit_error"} -> "retry"
      [] OTHER -> "raise"

\* One turn of the while loop of line 382: call the generator and act on
\* its answer.  retries counts the turns that ended in a wait, up to
\* MaxRetries.
GenerateResume(r) ==
    /\ cv.pc = "generate"
    /\ cv' = CASE AfterResponse(r) = "break" ->
                    [cv EXCEPT !.response = r.kind, !.pc = "check"]
               [] AfterResponse(r) = "retry" ->
                    [cv EXCEPT
                       !.response = r.kind,
                       !.wait_time = IF r.kind = "429" THEN WaitTime(r)
                                     ELSE 20000,
                       !.retries = IF @ < MaxRetries THEN @ + 1 ELSE @]
               [] OTHER ->
                    [cv EXCEPT !.response = r.kind, !.result = "raised",
                               !.pc = "done"]
    /\ UNCHANGED <<storeVars, runVars, fn, pace, fa, ac, sm, pg, collect>>

\* Lines 436-462: the size check and the upload of the generated file.
CheckAndUpload(oversize, upload_raised) ==
    /\ cv.pc = "check"
    /\ cv' = [cv EXCEPT
                !.result = IF oversize THEN "oversize"
                           ELSE IF upload_raised THEN "upload_failed"
                           ELSE "uploaded",
                !.pc = "done"]
    /\ UNCHANGED <<storeVars, runVars, fn, pace, fa, ac, sm, pg, collect>>

NextResume ==
    \/ \E r \in GeneratorResponses : GenerateResume(r)
    \/ \E o, u \in BOOLEAN : CheckAndUpload(o, u)

\* The loop keeps running: no turn is put off for ever.
SpecResumeFair ==
    /\ LET start == NewResume
       IN  InitIdle /\ InitUnits("cv") /\ cv = start
    /\ [][NextResume]_vars
    /\ WF_vars(NextResume)

(***************************************************************************)
(* The answer cache of the JobApplier: _save_questions_to_json and the     *)
(* lookups of the question handlers (SpecAnswers).                         *)
(***************************************************************************)
\* Question texts over an upper-case and a lower-case letter, a blank, a
\* comma and a double quote.
RawQuestions ==
    UNION {[1..n -> {"A", "a", " ", ",", "\""}] : n \in 1..MaxQLen}



RECURSIVE LStrip(_, _)
LStrip(t, c) == IF t # <<>> /\ Head(t) = c THEN LStrip(Tail(t), c) ELSE t

RECURSIVE RStrip(_, _)
RStrip(t, c) ==
    IF t # <<>> /\ t[Len(t)] = c THEN RStrip(SubSeq(t, 1, Len(t) - 1), c)
    ELSE t

\* _sanitize_text (lines 820-829): lower(), strip(), drop the quotes, then
\* rstrip(",").
SanitizeText(t) ==
    LET lower == [i \in 1..Len(t) |-> IF t[i] = "A" THEN "a" ELSE t[i]]
        stripped == LStrip(RStrip(lower, " "), " ")
    IN  RStrip(SelectSeq(stripped, LAMBDA x : x # "\""), ",")

\* question_already_exists_in_data (lines 32-43).
QuestionAlreadyExistsInData(question, data) ==
    \E i \in 1..Len(data) : data[i].question = question

\* answer_contians_company_name (lines 839-845).
AnswerContainsCompanyName(answer, company) ==
    /\ company # NoCompany
    /\ \E i \in 1..Len(answer) : answer[i] = company

\* The test of the lookup loops: lines 634-637 and 730-733 for a choice
\* question, lines 679-682 for a text box.
Matches(item, type, question) ==
    /\ item.type = type
    /\ IF type = "textbox" THEN item.question = question
       ELSE \E i \in 0..(Len(item.question) - Len(question)) :
               SubSeq(item.question, i + 1, i + Len(question)) = question

\* The legacy content of answers.json.
CacheFiles ==
    {Absent, Bad, JsonList(<<>>),
     JsonObj([type |-> "radio", question |-> <<"a">>, answer |-> <<"yes">>]),
     JsonList(<<[type |-> "radio", question |-> <<"a">>,
                 answer |-> <<"yes">>]>>)}

\* _save_questions_to_json (lines 778-818): the JobApplier after the call.
AfterSave(type, raw, answer) ==
    LET question == SanitizeText(raw)
        entry == [type |-> type, question |-> question, answer |-> answer]
        data == IF ac.file.t = "list" THEN ac.file.v ELSE <<>>
        should_be_saved ==
            /\ ~QuestionAlreadyExistsInData(question, data)
            /\ ~AnswerContainsCompanyName(answer, ac.company)
        outcome == [NoCacheOp EXCEPT !.op = "save", !.type = type,
                                     !.question = question,
                                     !.answer = answer]
    IN  CASE ac.file.t = "absent" ->
               [ac EXCEPT !.file = JsonList(<<entry>>),
                          !.saves = @ + 1,
                          !.last = [outcome EXCEPT !.out = "saved"]]
          [] ac.file.t = "obj" ->
               [ac EXCEPT !.saves = @ + 1,
                          !.last = [outcome EXCEPT !.out = "raise"]]
          [] OTHER ->
               IF should_be_saved
               THEN [ac EXCEPT !.file = JsonList(Append(data, entry)),
                               !.saves = @ + 1,
                               !.last = [outcome EXCEPT !.out = "saved"]]
               ELSE [ac EXCEPT !.saves = @ + 1,
                               !.last = [outcome EXCEPT !.out = "skipped"]]

\* A call of _save_questions_to_json on its own.
SaveQuestionsToJson(type, raw, answer) ==
    /\ ac.saves < MaxSaves
    /\ ac' = AfterSave(type, raw, answer)
    /\ UNCHANGED <<storeVars, runVars, fn, pace, fa, sm,
                   pg, cv, collect>>

\* The lookup of a question handler (lines 631-639, 675-684, 727-735): a
\* loop over self.all_data, an attribute nothing assigns.
FindAnswer(type, raw) ==
    /\ LET question == SanitizeText(raw)
           hits == IF ac.all_data = "unset" THEN {}
                   ELSE {i \in 1..Len(ac.all_data) :
                           Matches(ac.all_data[i], type, question)}
           first == CHOOSE i \in hits : \A j \in hits : i <= j
           outcome == [NoCacheOp EXCEPT !.op = "find", !.type = type,
                                        !.question = question]
       IN  ac' = [ac EXCEPT !.last =
                     IF ac.all_data = "unset"
                     THEN [outcome EXCEPT !.out = "raise", !.found = <<>>]
                     ELSE IF hits = {}
                     THEN [outcome EXCEPT !.out = "miss", !.found = <<>>]
                     ELSE [outcome EXCEPT
                             !.out = "hit",
                             !.found = ac.all_data[first].answer]]
    /\ UNCHANGED <<storeVars, runVars, fn, pace, fa, sm,
                   pg, cv, collect>>

\* _handle_radio_question (lines 620-659) and _handle_textbox_question
\* (lines 661-715) for a question that is no cover letter, with the answer
\* the oracle would give: the lookup in self.all_data comes first and
\* raises when the attribute is missing; a hit is applied and recorded; a
\* miss asks the oracle and saves its answer, and the handler raises when
\* the save does.  _handle_dropdown_question (lines 717-776) looks up as
\* the radio handler does.
HandleQuestion(type, raw, answer) ==
    /\ ac.saves < MaxSaves
    /\ LET question == SanitizeText(raw)
           hits == IF ac.all_data = "unset" THEN {}
                   ELSE {i \in 1..Len(ac.all_data) :
                           Matches(ac.all_data[i], type, question)}
           first == CHOOSE i \in hits : \A j \in hits : i <= j
           outcome == [NoCacheOp EXCEPT !.op = "handle", !.type = type,
                                        !.question = question]
           saved == AfterSave(type, raw, answer)
       IN  ac' = IF ac.all_data = "unset"
                 THEN [ac EXCEPT !.last = [outcome EXCEPT !.out = "raise"]]
                 ELSE IF hits # {}
                 THEN [ac EXCEPT !.last =
                         [outcome EXCEPT
                            !.out = "applied",
                            !.found = ac.all_data[first].answer]]
                 ELSE [saved EXCEPT !.last =
                         [outcome EXCEPT
                            !.out = IF saved.last.out = "raise"
                                    THEN "asked_raise" ELSE "asked",
                            !.answer = answer]]
    /\ UNCHANGED <<storeVars, runVars, fn, pace, fa, sm,
                   pg, cv, collect>>

\* The questions are of two kinds; the answers are given word by word.
SpecAnswers ==
    /\ \E f \in CacheFiles, c \in {"acme", NoCompany} :
          InitIdle /\ InitUnits("ac") /\ ac = NewCache(f, c)
    /\ [][\/ \E k \in {"radio", "textbox"}, q \in RawQuestions,
                a \in {<<"yes">>, <<"join", "acme">>} :
                 SaveQuestionsToJson(k, q, a)
          \/ \E k \in {"radio", "textbox"}, q \in RawQuestions :
                 FindAnswer(k, q)
          \/ \E k \in {"radio", "textbox"}, q \in RawQuestions,
                a \in {<<"yes">>, <<"join", "acme">>} :
                 HandleQuestion(k, q, a)]_vars

(***************************************************************************)
(* Properties of a run (Spec).                                             *)
(***************************************************************************)
\* The steps of job_apply.
JobApplyOps == {"job_apply", "click_apply_button", "fill_application_form"}


LinksOf(f) == {f.v[i].link : i \in 1..Len(f.v)}


\* C1: job_apply is never invoked for a posting whose link has already
\* been applied to and recorded during the run.
NoDuplicateApplication ==
    op = "job_apply" =>
        Head(job_list).link \notin
            (LinksOf(primary["success"]) \cup LinksOf(primary["manual_apply"]))

\* C7: when the operator has typed pause, resume and stop, no step of
\* job_apply is made once the status is STOPPED, also for the posting at
\* whose prompt the stop key was read; and start_applying does not return
\* without the final call of show_application_stats.
StopHonoured ==
    /\ (keys = <<"p", "r", "q">> /\ status = STOPPED) => op \notin JobApplyOps
    /\ pc = "returned" => reports.final = 1

\* C8: no listing call and no step of job_apply is made while the status
\* is PAUSED.
PausedIsIdle ==
    status = PAUSED =>
        op \notin ({"next_job_page", "get_jobs_from_page"} \cup JobApplyOps)

\* C9: click_apply_button is invoked only in automated mode and only for
\* a posting the oracle found suitable; in manual mode job_apply returns
\* the suitability result.
ApplyOnlyIfSuitable ==
    /\ op = "click_apply_button" => (~cfg.manual /\ ja.is_suitable)
    /\ (cfg.manual /\ pc = "apply_result") => ja.result = ja.is_suitable

PageErrorContained ==
    /\ []((pc \in {"finally", "returned"} /\ status # STOPPED)
            => search > NumSearches)
    /\ [][op' = "log_error"
            => /\ pc' \in {"page_loop", "search"}
               /\ status' = status
               /\ search' \in {search, search + 1}]_vars

PageErrorContainedWitness ==
    /\ op = "log_error"
    /\ search = NumSearches
    /\ status = RUNNING
    /\ pc = "search"

\* C12: a posting is handed to job_apply only if its extracted applicant
\* count lies within [min_applicants, max_applicants]; every other posting
\* (counts 0 and 51 under min 1 and max 50) is recorded as skipped with
\* the outside-range reason and is not applied to.
ApplicantCountGate ==
    /\ (op \in JobApplyOps /\ job_list # <<>>)
          => /\ Head(job_list).count >= JOB_MIN_APPLICATIONS
             /\ Head(job_list).count <= JOB_MAX_APPLICATIONS
    /\ \A c \in Categories \ {"skipped"} :
          LinksOf(primary[c]) \cap {"L3", "L4"} = {}

\* C13: _is_applicant_count_in_range(c) is true exactly for the counts c
\* with min_applicants <= c <= max_applicants: both ends are accepted and
\* their outer neighbours rejected.
CountInRangeIff ==
    fn.name = "_is_applicant_count_in_range" =>
        /\ fn.out <=> fn.arg \in JOB_MIN_APPLICATIONS..JOB_MAX_APPLICATIONS
        /\ fn.arg \in {JOB_MIN_APPLICATIONS, JOB_MAX_APPLICATIONS} => fn.out
        /\ fn.arg \in {JOB_MIN_APPLICATIONS - 1, JOB_MAX_APPLICATIONS + 1}
              => ~fn.out

CountInRangeIffWitness ==
    /\ fn.name = "_is_applicant_count_in_range"
    /\ fn.arg = JOB_MAX_APPLICATIONS
    /\ fn.out

\* C14: the outcome checks read what store_job wrote: once a record of a
\* posting is in the failed category, the previously-failed check on its
\* link answers true, and once one is in the applied category, the
\* applied-to-company check on its company answers true when the
\* once-per-company policy is on.
OutcomeChecksReadStore ==
    /\ \A i \in 1..Length(primary["failed"]) :
          IsPreviouslyFailedToApply(primary["failed"].v[i].link)
    /\ cfg.once =>
          \A i \in 1..Length(primary["success"]) :
              IsAlreadyAppliedToCompany(primary["success"].v[i])

\* C15: two successive applications are at least min_delay_between_apps
\* apart: the job_apply of the later one starts no sooner than that delay
\* after the earlier one returned, unless the operator skipped the wait
\* with the 'y' key.
ApplicationsSpaced ==
    pace.prev_end # NoTime =>
        \/ pace.start - pace.prev_end >= pace.min_delay_between_apps
        \/ pace.prev_skip

\* C16: when the form has no submit control at the end of the traversal,
\* the application is discarded: the form's discard operation has been
\* invoked when job_apply ends, no exception was raised for it, submit was
\* not clicked and no ApplicationRecord was saved.
NoSubmitDiscards ==
    (fa.pc = "done" /\ "submit not found" \in fa.logged) =>
        /\ "discard" \in fa.calls
        /\ fa.result # "raised"
        /\ "click_submit_button" \notin fa.calls
        /\ "ApplicationSaver.save" \notin fa.calls

\* C17: once _detect_language has returned None in a resume upload step,
\* the step has ended with the language error and no resume is selected,
\* generated or uploaded for the posting.
LanguageFailsClosed ==
    fa.detected_none =>
        /\ "language" \in fa.logged
        /\ fa.generated = 0
        /\ fa.calls \cap {"select_resume", "upload_file", "send_keys"} = {}

\* C18: a generated file over 2 MB is a fatal upload error: submit is
\* never clicked for the posting and its job_apply ends by raising.
OversizeIsFatal ==
    fa.oversize =>
        /\ "click_submit_button" \notin fa.calls
        /\ fa.pc = "done" => fa.result = "raised"

\* C19: the answer cache is keyed and idempotent: a lookup of (q, k) made
\* right after an answer was saved for (q, k) returns that answer, a
\* second save with the key of the save before it leaves answers.json
\* unchanged, and no (question, kind) pair ever has two entries.
AnswerCacheKeyed ==
    /\ [][(/\ ac.last.op = "save" /\ ac.last.out # "raise"
            /\ ac'.last.op = "find"
            /\ ac'.last.type = ac.last.type
            /\ ac'.last.question = ac.last.question)
           => (ac'.last.out = "hit" /\ ac'.last.found = ac.last.answer)]_vars
    /\ [][(/\ ac.last.op = "save" /\ ac.last.out # "raise"
            /\ ac'.last.op = "save" /\ ac'.saves = ac.saves + 1
            /\ ac'.last.type = ac.last.type
            /\ ac'.last.question = ac.last.question)
           => ac'.file = ac.file]_vars
    /\ [](ac.file.t = "list" =>
            \A i, j \in 1..Len(ac.file.v) :
                (/\ ac.file.v[i].question = ac.file.v[j].question
                 /\ ac.file.v[i].type = ac.file.v[j].type) => i = j)

\* C20: answers.json never holds an entry, put there by a save, whose
\* answer contains the company name of the current job; this includes
\* the save that creates the file.
NoCompanyInCache ==
    ac.file.t = "list" =>
        \A i \in 1..Len(ac.file.v) :
            ~AnswerContainsCompanyName(ac.file.v[i].answer, ac.company)

\* C21: should_end_session answers true exactly when today's total is
\* over 300, or the hour is between 1 and 5 with a total over 100, or the
\* session stamped by start_session has lasted more than 3 hours.
EndSessionIff ==
    sm.last.op = "should_end_session" =>
        (sm.last.out <=>
            \/ sm.total_requests_today > 300
            \/ /\ 1 <= sm.now % 24 /\ sm.now % 24 <= 5
               /\ sm.total_requests_today > 100
            \/ /\ sm.session_data.last_session # NoTime
               /\ sm.now - sm.session_data.last_session > 3)

\* C22: building a SessionManager never raises, and on a session file
\* that is missing, unreadable, not JSON or JSON without the expected
\* keys it starts with no last session and zero counters.
SessionLoadNeverRaises ==
    /\ sm.state # "raised"
    /\ (/\ sm.last.op = "__init__"
        /\ ~(sm.file.t = "obj" /\ DOMAIN sm.file.v[1]
                                     = {"last_session", "daily_requests"}))
       => /\ sm.session_data = EmptySessionData
          /\ sm.total_requests_today = 0

\* C23: the status of the control loop changes only in a step that reads
\* an operator key in handle_user_input.
StatusOnlyByKey == [][status' # status => op' = "input"]_vars

\* C24: when start_applying has ended, each counter it printed equals the
\* number of records the run stored in the matching category: applied for
\* the success and manual_apply records, skipped and failed for theirs.
CountersAccurate ==
    pc = "returned" =>
        /\ stats.applied = stored["success"] + stored["manual_apply"]
        /\ stats.skipped = stored["skipped"]
        /\ stats.failed = stored["failed"]

\* C25: _detect_language answers English for the description "We are
\* looking for an experienced developer with strong skills..." and Spanish
\* for "Buscamos un desarrollador con experiencia y conocimientos".
ScenarioLanguages ==
    fn.name = "_detect_language" =>
        /\ fn.arg = EnglishDescription => fn.out = "en"
        /\ fn.arg = SpanishDescription => fn.out = "es"

PagesSpaced ==
    pg.prev_fetch # NoTime =>
        /\ pg.last_fetch - pg.prev_fetch >= MINIMUM_WAIT_TIME_IN_SECONDS
        /\ (pg.page_count % 5 = 1) =>
              pg.last_fetch - pg.prev_fetch
                  >= MINIMUM_WAIT_TIME_IN_SECONDS + 60

\* C28: every navigation of the engine, next_job_page and goto_job_page
\* alike, is made after the governor was asked since the navigation
\* before it.
GovernorBeforeNavigation == [][pg'.navs = pg.navs + 1 => pg.consulted]_vars

\* C29: a job_apply call that raises to its caller has called save() on
\* the application page exactly once, in its exception handler, and a
\* call that reached the handler never returns a value.
SavedBeforeRaise ==
    /\ [](fa.saves = IF fa.result = "raised" THEN 1 ELSE 0)
    /\ [][fa.pc = "except" => fa'.result = "raised"]_vars

SavedBeforeRaiseWitness ==
    /\ fa.result = "raised"
    /\ fa.saves = 1
    /\ "click_submit_button" \in fa.calls

\* C30: _create_and_upload_resume comes to an end, whatever the document
\* generator answers: under throttling that does not stop it gives up
\* after a bounded number of retries.
RetriesCapped == <>(cv.pc = "done")

\* C31: a question handler asks the oracle exactly when answers.json holds
\* no entry with the sanitized question text and the question's kind; on
\* a hit it applies and records the cached answer and asks nobody.
HandlersUseCache ==
    [][ac'.last.op = "handle" =>
        LET data == IF ac.file.t = "list" THEN ac.file.v ELSE <<>>
            cached == {i \in 1..Len(data) :
                         /\ data[i].question = ac'.last.question
                         /\ data[i].type = ac'.last.type}
        IN  IF cached = {}
            THEN ac'.last.out \in {"asked", "asked_raise"}
            ELSE /\ ac'.last.out = "applied"
                 /\ \E i \in cached : data[i].answer = ac'.last.found]_vars

\* C32: in automated mode job_apply returns true, the answer on which
\* _apply_to_job writes the success record, only for a posting whose form
\* was submitted with click_submit_button.
SuccessOnlyIfSubmitted ==
    fa.result = "true" => "click_submit_button" \in fa.calls

\* C33: the steps that close a posting after job_apply was invoked for it,
\* on its return and on its exception alike, write exactly one outcome
\* record to the store.
EveryApplicationRecorded ==
    [][(pc \in {"apply_result", "job_error"}) =>
        (stored'["success"] + stored'["manual_apply"]
            + stored'["skipped"] + stored'["failed"])
        = (stored["success"] + stored["manual_apply"]
            + stored["skipped"] + stored["failed"] + 1)]_vars

\* C34: the finally clause of a store_job call that gave up waiting for
\* the lock leaves the other writer's lock file in place: a lock file is
\* removed only by the call that created it.
ForeignLockKept ==
    [][(/\ sj.gave_up /\ sj.pc = "release" /\ sj'.pc = "done"
        /\ lock_file = "other")
          => lock_file' = "other"]_vars

\* C35: in _fill_application_form every page has been filled by fill_up
\* exactly once, while it was the current page, when click_next_button
\* or click_submit_button is invoked on it; the page on which submit is
\* clicked has been filled.
EachPageFilledOnce ==
    /\ [][fa'.page = fa.page + 1 => fa.filled[fa.page] = 1]_vars
    /\ []("click_submit_button" \in fa.calls =>
             \A i \in 1..fa.page : fa.filled[i] = 1)

\* C36: _fill_application_form terminates for every form, also one whose
\* next control stays present on the same page after click_next_button:
\* job_apply always comes to its end.
FormTerminates == <>(fa.pc = "done")

\* C37: start_applying ends without operator input when the listing keeps
\* failing: a run in which no key is ever typed and next_job_page succeeds
\* only finitely often reaches its final stats report.
ListingFailureEnds ==
    \/ <>(keys # <<>>)
    \/ []<><<op' = "next_job_page">>_vars
    \/ <>(pc = "returned" /\ reports.final = 1)

(***************************************************************************)
(* JobManager.start_collecting_data (job_manager.py lines 282-345).        *)
(***************************************************************************)
max_retries == 3        \* line 297
InitialBackoff == 60    \* line 299: backoff_time of the first retry, seconds

\* Lines 290-299: the next position/location pair, or the return once all
\* pairs are visited.
CollectSearch ==
    /\ collect.pc = "search"
    /\ collect' = IF collect.search > NumSearches
                  THEN [collect EXCEPT !.pc = "returned"]
                  ELSE [collect EXCEPT !.page_number = 0,
                                       !.retry_count = 0,
                                       !.backoff_time = InitialBackoff,
                                       !.pc = "loop"]
    /\ UNCHANGED <<storeVars, runVars, fn, pace, fa, ac, sm, pg, cv>>

\* Line 301: the test of the while loop; the search is left when it fails.
CollectLoop ==
    /\ collect.pc = "loop"
    /\ collect' = IF collect.retry_count < max_retries
                  THEN [collect EXCEPT !.pc = "page"]
                  ELSE [collect EXCEPT !.search = @ + 1, !.pc = "search"]
    /\ UNCHANGED <<storeVars, runVars, fn, pace, fa, ac, sm, pg, cv>>

\* Lines 302-340: one turn of the while loop.  The
\* page is listed and read_jobs writes its n postings (none on an empty
\* page: get_jobs_from_page returns [] and read_jobs returns), or a call
\* raises a rate-limit error or another error.  The waits of lines
\* 316-330 change nothing the loop reads.  The page counts stop one past
\* MaxPages.
CollectPage(outcome, n) ==
    /\ collect.pc = "page"
    /\ outcome \in {"listed", "rate_limit", "error"}
    /\ n \in 0..MaxJobsPerPage
    /\ n <= collect.listing
    /\ outcome # "listed" => n = 0
    /\ LET turn == [collect EXCEPT
                      !.page_number = IF @ <= MaxPages THEN @ + 1 ELSE @,
                      !.page_count = IF @ <= MaxPages THEN @ + 1 ELSE @,
                      !.slept = 0]
       IN  collect' =
             CASE outcome = "listed" ->
                    [turn EXCEPT !.listing = @ - n,
                                 !.written = @ + n,
                                 !.last = IF n = 0 THEN "empty" ELSE "found",
                                 !.pc = "loop"]
               [] outcome = "rate_limit" ->
                    [turn EXCEPT !.retry_count = @ + 1,
                                 !.slept = collect.backoff_time,
                                 !.backoff_time = @ * 2,
                                 !.last = "rate_limit",
                                 !.pc = "loop"]
               [] OTHER ->
                    [turn EXCEPT !.search = @ + 1, !.pc = "search",
                                 !.last = "error"]
    /\ UNCHANGED <<storeVars, runVars, fn, pace, fa, ac, sm, pg, cv>>

\* start_collecting_data runs on: no step of it is put off for ever.
SpecCollectFair ==
    /\ LET start == NewCollect(MaxPostings)
       IN  InitIdle /\ InitUnits("collect") /\ collect = start
    /\ [][\/ CollectSearch
          \/ CollectLoop
          \/ \E o \in {"listed", "rate_limit", "error"},
                n \in 0..MaxJobsPerPage : CollectPage(o, n)]_vars
    /\ WF_vars(\/ CollectSearch
               \/ CollectLoop
               \/ \E o \in {"listed", "rate_limit", "error"},
                     n \in 0..MaxJobsPerPage : CollectPage(o, n))

\* C38: start_collecting_data terminates: it returns after all
\* position/location pairs have been visited, the page loop of each search
\* ending once a page yields no postings or after 3 rate-limit retries.
CollectingTerminates == <>(collect.pc = "returned")

(***************************************************************************)
(* The lifecycle of the control loop (job_manager.py lines 165-200): the   *)
(* public operations of the JobManager called in any order                 *)
(* (SpecControl).                                                          *)
(***************************************************************************)
\* One call of pause_application, resume_application or stop_application,
\* or one prompt of handle_user_input answered with key k.
ControlCall(call, k) ==
    /\ IF call = "handle_user_input"
       THEN ReadKey(k)
       ELSE /\ call \in {"pause_application", "resume_application",
                          "stop_application"}
            /\ k = ""
            /\ status' = CASE call = "pause_application" ->
                                 PauseApplication(status)
                            [] call = "resume_application" ->
                                 ResumeApplication(status)
                            [] OTHER -> StopApplication(status)
            /\ reports' = IF call = "stop_application"
                          THEN [reports EXCEPT !.stop = 1] ELSE reports
            /\ op' = call
            /\ UNCHANGED keys
    /\ NoStore
    /\ UNCHANGED <<cfg, out_dir, stats, seen_jobs, pc, search, page_count,
                   jobs, job_list, ja, raises, listing>>
    /\ UNCHANGED unitVars

SpecControl ==
    /\ LET unit == ""
       IN  InitIdle /\ InitUnits(unit)
    /\ [][\E call \in {"handle_user_input", "pause_application",
                        "resume_application", "stop_application"},
             k \in Keys : ControlCall(call, k)]_vars

\* C39: STOPPED is absorbing: a pause changes the status only from RUNNING
\* to PAUSED, a resume only from PAUSED to RUNNING, and once the status is
\* STOPPED no pause, resume, stop or operator key changes it.
StoppedAbsorbing ==
    [][/\ (/\ \/ op' = "pause_application"
                 \/ keys' = Append(keys, "p")
              /\ status' # status)
             => (status = RUNNING /\ status' = PAUSED)
       /\ (/\ \/ op' = "resume_application"
                 \/ keys' = Append(keys, "r")
              /\ status' # status)
             => (status = PAUSED /\ status' = RUNNING)
       /\ status = STOPPED => status' = STOPPED]_vars

\* STOPPED was reached by the key q, and then the keys r and p and a
\* resume_application call have been tried on it.
StoppedAbsorbingWitness ==
    /\ status = STOPPED
    /\ op = "resume_application"
    /\ keys = <<"q", "r", "p">>

\* C40: after a record_request call the total_requests_today that
\* should_end_session reads equals the count daily_requests holds for the
\* current date, also when the date has changed since the call before.
TotalIsTodaysCount ==
    sm.last.op = "record_request" =>
        sm.total_requests_today
            = GetRequestsToday(sm.session_data, sm.now)

=============================================================================
